---- MODULE Spec2Model ----
(***************************************************************************)
(* Model of the bandar-baat API (apps/api/src): the user_words table, the  *)
(* SM-2 review handler submit_review, the two other handlers that write    *)
(* user_words rows (mark_word_known, complete_story), the read requests    *)
(* over it (due reviews, review summary, dashboard stats, story readiness),*)
(* story generation's choice of level, new words and grammar concepts, the *)
(* unlock of a grammar concept, and the grading of exercise answers.       *)
(*                                                                         *)
(* Number representation.                                                  *)
(*   srs_ease_factor    hundredths (2.5 is 250, the floor 1.3 is 130).     *)
(*   srs_interval_days  whole days (the handler only ever stores integers).*)
(*   familiarity        a reduced fraction <<num, den>>: the double that   *)
(*                      c / r yields is the same for equal ratios and      *)
(*                      different for different ratios of small integers,  *)
(*                      and 0.8, 0.7, 0.9 are the doubles of 4/5, 7/10,    *)
(*                      9/10, so comparing fractions is comparing doubles. *)
(*   timestamps         clock ticks, Day ticks to a day, NULL for SQL NULL.*)
(* round(interval * ease) is Python's round of a double product.  Where    *)
(* the decimal product is not a tie the result is the nearest integer.     *)
(* Where it is a tie (x.5) the double product lies at, just above or just  *)
(* below the tie depending on the rounding error the ease factor has       *)
(* accumulated (45 * 2.9000000000000004 gives 131, 15 * 2.5 gives 38 by    *)
(* round-half-even), so the direction is an input `up` of the handler.     *)
(*                                                                         *)
(* Specifications.                                                         *)
(*   Spec       requests of two users handled one at a time, clock ticking.*)
(*   SpecRow    the requests of one user for one word, as many in a row as *)
(*              it takes the ease factor to reach its floor.               *)
(*   SpecSched  one review applied to any row the table can hold.          *)
(*   SpecConc   review requests whose select, in-memory update and commit  *)
(*              interleave (READ COMMITTED, no row lock, no version        *)
(*              column: what reviews.py and models.py ask the store for).  *)
(*   SpecRead   the due queries on any rows of a user, clock ticking.      *)
(*   SpecLevel  the level tables on any words-known count.                 *)
(*   SpecStreak the streak on any sessions of a user.                      *)
(*   SpecStory  story readiness and generation for any request.            *)
(*   SpecUnlock unlock requests on any user_grammars rows.                 *)
(*   SpecFuzzy  the fallback grading of any answer near the expected one.  *)
(*   SpecEval   answers submitted to exercises of every type.              *)
(*   SpecDup    mark-known, story completion and unlock requests whose     *)
(*              selects and commit interleave, under the unique            *)
(*              constraints of models.py.                                  *)
(*   SpecOverlap one review in flight while others are handled to the end. *)
(*   SpecDue    rows created and reviewed, the clock ticking, due queries. *)
(*   SpecGrammar the requests around user_grammars from an empty table.    *)
(* other_known is the number of rows with status KNOWN each user has for   *)
(* words outside the words table modelled here (as mark_word_known leaves  *)
(* them: never reviewed, so never due); the words-known count is the count *)
(* over user_words plus other_known.                                       *)
(* A str is the sequence of its characters.  grammar_inserts counts, for   *)
(* each (user, concept), the INSERTs into user_grammars the store accepted *)
(* (user_grammar itself is keyed by the pair).                             *)
(***************************************************************************)
EXTENDS Integers, Sequences, FiniteSets, TLC

VARIABLES user_words, stories, now, last, nreq, pc, req, snap, obj,
          user_grammar, learning_sessions, other_known, reply,
          exercises, exercise_attempts, grammar_inserts

vars == <<user_words, stories, now, last, nreq, pc, req, snap, obj,
         user_grammar, learning_sessions, other_known, reply,
         exercises, exercise_attempts, grammar_inserts>>

(* ------------------------------ bounds -------------------------------- *)

MaxRows == 3
MaxRequests == 2
MaxRowRequests == 10
MaxClock == 2
MaxSkew == 1
NumProcs == 2
MaxPriorReviews == 9
MaxPriorInterval == 9
MaxSessions == 3
MaxKnown == 601
StreakDays == 3
MaxAttempts == 1
MaxEdits == 3

(* -------------------------- program constants ------------------------- *)

Day == 2

NULL == -1

Users == {"u1", "u2"}

Words == {"w1", "w2"}

\* the words table: the ids and the cefr_level of each word
WordIds == {"w1", "w2", "w3", "w4", "w5", "w6", "w7", "w8"}

cefr_level ==
    [w \in WordIds |->
       IF w \in {"w1", "w2", "w3", "w4"} THEN "A1"
       ELSE IF w \in {"w5", "w6", "w7"} THEN "A2"
       ELSE "B1"]

RowIds == 1 .. MaxRows

StoryIds == {"s1", "s2", "s3"}

Procs == 1 .. NumProcs

WordStatus == {"NEW", "LEARNING", "KNOWN", "MASTERED"}

Qualities == 0 .. 5

QualityInputs == -1 .. 6

NoRow == [user_id |-> "none"]

GrammarStatus == {"LOCKED", "AVAILABLE", "LEARNING", "LEARNED"}

ConceptIds == {"g1", "g2", "g3"}

SessionIds == 1 .. MaxSessions

\* no user_grammars row for any user and concept (uq_user_grammar: at most one)
NoGrammar == [u \in Users, g \in ConceptIds |-> "none"]

\* an optional string argument left out (None and "" both fail `if x:`)
NONE == ""

\* grammar_concepts.sort_order (not unique)
sort_order == [g \in ConceptIds |-> IF g = "g1" THEN 1 ELSE 2]

\* grammar_concepts.prerequisite_ids
prerequisite_ids ==
    [g \in ConceptIds |->
       IF g = "g1" THEN <<>> ELSE IF g = "g2" THEN <<"g1">> ELSE <<"g1", "g2">>]

\* no learning_sessions row
NoSessions == [i \in SessionIds |-> NoRow]

\* no read request answered yet
NoReply == [op |-> "none"]

ExerciseType == {"COMPREHENSION", "FILL_BLANK", "TRANSLATE_TO_HINDI",
                 "TRANSLATE_TO_ENGLISH", "WORD_ORDER", "MULTIPLE_CHOICE"}

ExerciseIds == {"e1", "e2", "e3"}

\* an exercises row: the columns the grading reads
Exercise(story_id, type, correct_answer) ==
    [story_id |-> story_id, type |-> type, correct_answer |-> correct_answer]

\* the exercises table without rows
NoExercises == [e \in ExerciseIds |-> NoRow]

\* no INSERT into user_grammars accepted yet
NoInserts == [k \in Users \X ConceptIds |-> 0]

\* the INSERTs that made the rows of a user_grammars table: one for each row
InsertsOf(grammar) ==
    [k \in Users \X ConceptIds |-> IF grammar[k] = "none" THEN 0 ELSE 1]

(* ------------------------------ numbers ------------------------------- *)

Max(a, b) == IF a >= b THEN a ELSE b

RECURSIVE GCD(_, _)
GCD(a, b) == IF b = 0 THEN a ELSE GCD(b, a % b)

\* the double n / d, as a reduced fraction
Frac(n, d) == LET g == GCD(n, d) IN IF g = 0 THEN <<0, 1>> ELSE <<n \div g, d \div g>>

\* f >= n / d
FracGE(f, n, d) == f[1] * d >= n * f[2]

\* min(1.0, f)
ClampOne(f) == IF f[1] > f[2] THEN <<1, 1>> ELSE f

\* round(n / d): nearest integer, `up` decides an exact tie
Round(n, d, up) ==
    IF 2 * (n % d) = d
    THEN (n \div d) + (IF up THEN 1 ELSE 0)
    ELSE (2 * n + d) \div (2 * d)

IsTie(n, d) == 2 * (n % d) = d

(* --------------------------- user_words rows -------------------------- *)

\* UserWord(user_id, word_id): every other column takes its default
DefaultRow(u, w) ==
    [user_id |-> u, word_id |-> w, status |-> "NEW", familiarity |-> <<0, 1>>,
     times_seen |-> 0, times_reviewed |-> 0, times_correct |-> 0,
     last_seen_at |-> NULL, next_review_at |-> NULL,
     srs_interval_days |-> 1, srs_ease_factor |-> 250]

\* select(UserWord).where(user_id == u, word_id == w)
RowsOf(tbl, u, w) ==
    {id \in RowIds : tbl[id] # NoRow /\ tbl[id].user_id = u /\ tbl[id].word_id = w}

FreeIds(tbl) == {id \in RowIds : tbl[id] = NoRow}

\* the primary key of a new row (a fresh uuid4: the least unused id)
NewId(tbl) == CHOOSE id \in FreeIds(tbl) : \A other \in FreeIds(tbl) : id <= other

(* --------------------------- SM-2 (submit_review) --------------------- *)

\* 0.1 - (5 - quality) * (0.08 + (5 - quality) * 0.02), in hundredths
EaseDelta(quality) == 10 - (5 - quality) * (8 + (5 - quality) * 2)

\* NewEase with the floor left out
NewEaseNoFloor(ease, quality) == ease + EaseDelta(quality)

\* max(1.3, ease + delta)
NewEase(ease, quality) == Max(130, ease + EaseDelta(quality))

\* NewInterval without the step from 1 to 6
NewIntervalNoSix(interval, ease, up) ==
    IF interval = 0 THEN 1
    ELSE Round(interval * ease, 100, up)

\* the interval of a successful review, from the prior interval and the updated ease
NewInterval(interval, ease, up) ==
    IF interval = 0 THEN 1
    ELSE IF interval = 1 THEN 6
    ELSE Round(interval * ease, 100, up)

\* min(1.0, times_correct / max(1, times_reviewed))
Familiarity(correct, reviewed) == ClampOne(Frac(correct, Max(1, reviewed)))

\* StatusOf with MASTERED decided by familiarity alone
StatusOfFamiliarityOnly(familiarity, interval) ==
    IF FracGE(familiarity, 9, 10) THEN "MASTERED"
    ELSE IF FracGE(familiarity, 7, 10) THEN "KNOWN"
    ELSE "LEARNING"

\* StatusOf with MASTERED only beyond 21 days
StatusOfStrict(familiarity, interval) ==
    IF FracGE(familiarity, 9, 10) /\ interval > 21 THEN "MASTERED"
    ELSE IF FracGE(familiarity, 7, 10) THEN "KNOWN"
    ELSE "LEARNING"

StatusOf(familiarity, interval) ==
    IF FracGE(familiarity, 9, 10) /\ interval >= 21 THEN "MASTERED"
    ELSE IF FracGE(familiarity, 7, 10) THEN "KNOWN"
    ELSE "LEARNING"

\* ReviewEase with the ease update applied to failed reviews too
ReviewEaseAnyQuality(row, quality) == NewEase(row.srs_ease_factor, quality)

\* lines 164-173: the ease factor after the review
ReviewEase(row, quality) ==
    IF quality < 3 THEN row.srs_ease_factor
    ELSE NewEase(row.srs_ease_factor, quality)

\* ReviewInterval with the interval computed from the ease before its update
ReviewIntervalPriorEase(row, quality, up) ==
    IF quality < 3 THEN 1
    ELSE NewInterval(row.srs_interval_days, row.srs_ease_factor, up)

\* lines 164-183: the interval after the review
ReviewInterval(row, quality, up) ==
    IF quality < 3 THEN 1
    ELSE NewInterval(row.srs_interval_days, ReviewEase(row, quality), up)

\* lines 192-193
ReviewCorrect(row, quality) ==
    IF quality >= 3 THEN row.times_correct + 1 ELSE row.times_correct

\* ReviewFamiliarity with times_reviewed read before its increment
ReviewFamiliarityStale(row, quality) ==
    Familiarity(ReviewCorrect(row, quality), row.times_reviewed)

\* lines 186, 196-198: familiarity from the counters after their increment
ReviewFamiliarity(row, quality) ==
    Familiarity(ReviewCorrect(row, quality), row.times_reviewed + 1)

\* lines 187-190: last_seen_at and next_review_at from the two clock readings
ReviewTimes(interval, t1, t2) ==
    [last_seen_at |-> t1, next_review_at |-> t2 + interval * Day]

\* Review that never takes a KNOWN row back to LEARNING
ReviewKeepsKnown(row, quality, t1, t2, up) ==
    LET interval == ReviewInterval(row, quality, up)
        fam == ReviewFamiliarity(row, quality)
        times == ReviewTimes(interval, t1, t2)
    IN  [row EXCEPT !.srs_ease_factor = ReviewEase(row, quality),
                    !.srs_interval_days = interval,
                    !.times_reviewed = row.times_reviewed + 1,
                    !.last_seen_at = times.last_seen_at,
                    !.next_review_at = times.next_review_at,
                    !.times_correct = ReviewCorrect(row, quality),
                    !.familiarity = fam,
                    !.status = IF row.status = "KNOWN" /\ StatusOf(fam, interval) = "LEARNING"
                               THEN "KNOWN" ELSE StatusOf(fam, interval)]

\* Review without the final else branch: below 0.7 the status is left alone
ReviewNoElse(row, quality, t1, t2, up) ==
    LET interval == ReviewInterval(row, quality, up)
        fam == ReviewFamiliarity(row, quality)
        times == ReviewTimes(interval, t1, t2)
    IN  [row EXCEPT !.srs_ease_factor = ReviewEase(row, quality),
                    !.srs_interval_days = interval,
                    !.times_reviewed = row.times_reviewed + 1,
                    !.last_seen_at = times.last_seen_at,
                    !.next_review_at = times.next_review_at,
                    !.times_correct = ReviewCorrect(row, quality),
                    !.familiarity = fam,
                    !.status = IF FracGE(fam, 7, 10) THEN StatusOf(fam, interval)
                               ELSE row.status]

\* the row after lines 161-204: t1 and t2 are the two readings of the clock
Review(row, quality, t1, t2, up) ==
    LET interval == ReviewInterval(row, quality, up)
        fam == ReviewFamiliarity(row, quality)
        times == ReviewTimes(interval, t1, t2)
    IN  [row EXCEPT !.srs_ease_factor = ReviewEase(row, quality),
                    !.srs_interval_days = interval,
                    !.times_reviewed = row.times_reviewed + 1,
                    !.last_seen_at = times.last_seen_at,
                    !.next_review_at = times.next_review_at,
                    !.times_correct = ReviewCorrect(row, quality),
                    !.familiarity = fam,
                    !.status = StatusOf(fam, interval)]

\* the rounding direction is an input only where the product is a tie
UpChoices(row, quality) ==
    IF quality >= 3 /\ row.srs_interval_days > 1
       /\ IsTie(row.srs_interval_days * NewEase(row.srs_ease_factor, quality), 100)
    THEN BOOLEAN ELSE {FALSE}

(* ------------------------------ requests ------------------------------ *)

\* the most recent request: what it was and the row it found
Request(op, u, id, quality, pre, at) ==
    [op |-> op, user |-> u, id |-> id, quality |-> quality, pre |-> pre, at |-> at]

NoRequest == Request("none", "none", 0, 0, NoRow, 0)

\* Owned without the user_id condition of the select
OwnedByAnyone(tbl, u, id) == tbl[id] # NoRow

\* select(UserWord).where(id == user_word_id, user_id == current_user.id)
Owned(tbl, u, id) == tbl[id] # NoRow /\ tbl[id].user_id = u

Idle == [p \in Procs |-> "idle"]

NoReq == [p \in Procs |-> NoRequest]

NoRows == [p \in Procs |-> NoRow]

\* POST /reviews/{user_word_id}/submit, handled without interruption
SubmitReview(u, id, quality, d) ==
    /\ UNCHANGED <<stories, pc, req, snap, obj,
                   user_grammar, learning_sessions, other_known, reply,
                   exercises, exercise_attempts, grammar_inserts>>
    /\ nreq' = nreq + 1
    /\ IF quality \notin Qualities
       THEN \* ReviewSubmitRequest: ge=0, le=5
            /\ last' = Request("submit_review_422", u, id, quality, NoRow, 0)
            /\ UNCHANGED <<user_words, now>>
       ELSE IF ~Owned(user_words, u, id)
       THEN \* lines 153-159
            /\ last' = Request("submit_review_404", u, id, 0, NoRow, 0)
            /\ UNCHANGED <<user_words, now>>
       ELSE \E up \in UpChoices(user_words[id], quality) :
            /\ now + d <= MaxClock
            /\ user_words' = [user_words EXCEPT
                                ![id] = Review(user_words[id], quality, now, now + d, up)]
            /\ now' = now + d
            /\ last' = Request("submit_review", u, id, quality, user_words[id], now)

\* MarkKnown that replaces a row found by a new one
MarkKnownFresh(tbl, u, w) ==
    LET id == IF RowsOf(tbl, u, w) # {} THEN CHOOSE i \in RowsOf(tbl, u, w) : TRUE
              ELSE NewId(tbl)
    IN  [tbl EXCEPT ![id] =
           [DefaultRow(u, w) EXCEPT !.status = "KNOWN", !.familiarity = <<4, 5>>]]

\* lines 174-184 of words.py
MarkKnown(tbl, u, w) ==
    IF RowsOf(tbl, u, w) # {}
    THEN LET id == CHOOSE i \in RowsOf(tbl, u, w) : TRUE
         IN  [tbl EXCEPT ![id].status = "KNOWN", ![id].familiarity = <<4, 5>>]
    ELSE [tbl EXCEPT ![NewId(tbl)] =
            [DefaultRow(u, w) EXCEPT !.status = "KNOWN", !.familiarity = <<4, 5>>]]

\* POST /words/{word_id}/mark-known
MarkWordKnown(u, w) ==
    /\ UNCHANGED <<stories, now, pc, req, snap, obj,
                   user_grammar, learning_sessions, other_known, reply,
                   exercises, exercise_attempts, grammar_inserts>>
    /\ nreq' = nreq + 1
    /\ IF w \notin WordIds
       THEN /\ last' = Request("mark_word_known_404", u, 0, 0, NoRow, 0)
            /\ UNCHANGED user_words
       ELSE /\ RowsOf(user_words, u, w) = {} => FreeIds(user_words) # {}
            /\ user_words' = MarkKnown(user_words, u, w)
            /\ LET ids == RowsOf(user_words', u, w)
                   id == CHOOSE i \in ids : TRUE
               IN  last' = Request("mark_word_known", u, id, 0, user_words[id], now)

\* lines 172-195 of stories.py: the loop over target_new_word_ids
RECURSIVE MarkSeen(_, _, _, _)
MarkSeen(tbl, u, wids, t) ==
    IF wids = <<>> THEN tbl
    ELSE LET w == Head(wids)
             ids == RowsOf(tbl, u, w)
             next ==
               IF ids # {}
               THEN LET id == CHOOSE i \in ids : TRUE
                    IN  [tbl EXCEPT
                           ![id].times_seen = @ + 1,
                           ![id].last_seen_at = t,
                           ![id].status = IF @ = "NEW" THEN "LEARNING" ELSE @]
               ELSE [tbl EXCEPT ![NewId(tbl)] =
                       [DefaultRow(u, w) EXCEPT !.status = "LEARNING",
                                                !.times_seen = 1,
                                                !.last_seen_at = t]]
         IN  MarkSeen(next, u, Tail(wids), t)

\* the rows the loop would insert
Missing(tbl, u, wids) ==
    {w \in {wids[i] : i \in DOMAIN wids} : RowsOf(tbl, u, w) = {}}

\* POST /stories/{story_id}/complete
CompleteStory(u, sid, rating, d) ==
    /\ UNCHANGED <<pc, req, snap, obj,
                   user_grammar, learning_sessions, other_known, reply,
                   exercises, exercise_attempts, grammar_inserts>>
    /\ nreq' = nreq + 1
    /\ IF sid \notin StoryIds \/ stories[sid].user_id # u
       THEN /\ last' = Request("complete_story_404", u, 0, 0, NoRow, 0)
            /\ UNCHANGED <<user_words, stories, now>>
       ELSE /\ now + d <= MaxClock
            /\ Cardinality(Missing(user_words, u, stories[sid].target_new_word_ids))
                 <= Cardinality(FreeIds(user_words))
            /\ stories' = [stories EXCEPT
                             ![sid].completed_at = now,
                             ![sid].rating = IF rating # NULL THEN rating ELSE @]
            /\ user_words' = MarkSeen(user_words, u,
                                      stories[sid].target_new_word_ids, now + d)
            /\ now' = now + d
            /\ last' = Request("complete_story", u, 0, 0, NoRow, now)

\* time passes between requests
Tick ==
    /\ now < MaxClock
    /\ now' = now + 1
    /\ UNCHANGED <<user_words, stories, last, nreq, pc, req, snap, obj,
                   user_grammar, learning_sessions, other_known, reply,
                   exercises, exercise_attempts, grammar_inserts>>

(* --------------------- requests handled one at a time ------------------ *)

\* a stories row as generate_story inserts it
NewStory(u, wids, gids, level) ==
    [user_id |-> u, target_new_word_ids |-> wids, target_grammar_ids |-> gids,
     difficulty_level |-> level, completed_at |-> NULL, rating |-> NULL]

\* two generated stories, not yet completed
InitStories ==
    [sid \in StoryIds |->
       IF sid = "s1" THEN NewStory("u1", <<"w1", "w2">>, <<>>, "A1")
       ELSE IF sid = "s2" THEN NewStory("u2", <<"w1">>, <<>>, "A1")
       ELSE NoRow]

EmptyTable == [id \in RowIds |-> NoRow]

\* the table is empty or holds one seeded row with the column defaults
InitTables == {EmptyTable, [EmptyTable EXCEPT ![1] = DefaultRow("u2", "w1")]}

Init ==
    /\ user_words \in InitTables
    /\ stories = InitStories
    /\ now = 0
    /\ last = NoRequest
    /\ nreq = 0
    /\ pc = Idle
    /\ req = NoReq
    /\ snap = NoRows
    /\ obj = NoRows
    /\ user_grammar = NoGrammar
    /\ learning_sessions = NoSessions
    /\ other_known = 0
    /\ reply = NoReply
    /\ exercises = NoExercises
    /\ exercise_attempts = <<>>
    /\ grammar_inserts = NoInserts

Next ==
    \/ /\ nreq < MaxRequests
       /\ \/ \E u \in Users, id \in RowIds, quality \in QualityInputs, d \in 0 .. MaxSkew :
               SubmitReview(u, id, quality, d)
          \/ \E u \in Users, w \in Words \cup {"w0"} : MarkWordKnown(u, w)
          \/ \E u \in Users, sid \in StoryIds, rating \in {NULL, 4}, d \in 0 .. MaxSkew :
               CompleteStory(u, sid, rating, d)
    \/ Tick

Spec == Init /\ [][Next]_vars

(* ------------------ the requests of one user for one word -------------- *)

\* u2 and w1 only: first exposure, then review after review of that one row
NextRow ==
    /\ nreq < MaxRowRequests
    /\ \/ \E quality \in Qualities : SubmitReview("u2", 1, quality, 0)
       \/ MarkWordKnown("u2", "w1")
       \/ CompleteStory("u2", "s2", NULL, 0)

SpecRow == Init /\ [][NextRow]_vars

(* ---------------- the scheduler on any row the table can hold ---------- *)

\* rows of u2 for w1 with any status, interval, ease and counters
PriorRows ==
    {[DefaultRow("u2", "w1") EXCEPT !.status = st,
                                    !.srs_interval_days = iv,
                                    !.srs_ease_factor = ef,
                                    !.times_reviewed = rv,
                                    !.times_correct = co,
                                    !.familiarity = fm] :
       st \in WordStatus, iv \in 0 .. MaxPriorInterval, ef \in {130, 140, 250, 260},
       rv \in 0 .. MaxPriorReviews, co \in 0 .. MaxPriorReviews,
       fm \in {<<0, 1>>, <<4, 5>>, <<1, 1>>}}

InitSched ==
    /\ \E row \in PriorRows :
         /\ row.times_correct <= row.times_reviewed
         /\ user_words = [EmptyTable EXCEPT ![1] = row]
    /\ stories = InitStories
    /\ now = 0
    /\ last = NoRequest
    /\ nreq = 0
    /\ pc = Idle
    /\ req = NoReq
    /\ snap = NoRows
    /\ obj = NoRows
    /\ user_grammar = NoGrammar
    /\ learning_sessions = NoSessions
    /\ other_known = 0
    /\ reply = NoReply
    /\ exercises = NoExercises
    /\ exercise_attempts = <<>>
    /\ grammar_inserts = NoInserts

\* one review of that row
NextSched ==
    /\ nreq < 1
    /\ \E quality \in Qualities, d \in 0 .. MaxSkew : SubmitReview("u2", 1, quality, d)

SpecSched == InitSched /\ [][NextSched]_vars

(* ------------------- review requests running concurrently ------------- *)

Columns == DOMAIN DefaultRow("u1", "w1")

\* Flush that writes the scheduling columns and leaves the others behind
FlushPartial(current, loaded, object) ==
    [c \in Columns |->
       IF c \in {"srs_interval_days", "srs_ease_factor"} /\ object[c] # loaded[c]
       THEN object[c] ELSE current[c]]

\* db.commit(): one UPDATE that sets the columns whose value in the session's
\* object differs from the value the session loaded, on the row as it now is
Flush(current, loaded, object) ==
    [c \in Columns |-> IF object[c] # loaded[c] THEN object[c] ELSE current[c]]

\* lines 144-159: the request arrives and the session loads the row
Select(p, u, id, quality) ==
    /\ pc[p] = "idle"
    /\ IF quality \notin Qualities \/ ~Owned(user_words, u, id)
       THEN /\ pc' = [pc EXCEPT ![p] = "rejected"]
            /\ UNCHANGED <<req, snap, obj>>
       ELSE /\ pc' = [pc EXCEPT ![p] = "selected"]
            /\ req' = [req EXCEPT
                         ![p] = Request("submit_review", u, id, quality, NoRow, 0)]
            /\ snap' = [snap EXCEPT ![p] = user_words[id]]
            /\ obj' = [obj EXCEPT ![p] = user_words[id]]
    /\ UNCHANGED <<user_words, stories, now, last, nreq,
                   user_grammar, learning_sessions, other_known, reply,
                   exercises, exercise_attempts, grammar_inserts>>

\* lines 161-204: the session's object is updated in memory
Compute(p, d) ==
    /\ pc[p] = "selected"
    /\ now + d <= MaxClock
    /\ \E up \in UpChoices(snap[p], req[p].quality) :
         obj' = [obj EXCEPT ![p] = Review(snap[p], req[p].quality, now, now + d, up)]
    /\ now' = now + d
    /\ pc' = [pc EXCEPT ![p] = "computed"]
    /\ UNCHANGED <<user_words, stories, last, nreq, req, snap,
                   user_grammar, learning_sessions, other_known, reply,
                   exercises, exercise_attempts, grammar_inserts>>

\* line 206
Commit(p) ==
    /\ pc[p] = "computed"
    /\ user_words' = [user_words EXCEPT
                        ![req[p].id] = Flush(user_words[req[p].id], snap[p], obj[p])]
    /\ pc' = [pc EXCEPT ![p] = "done"]
    /\ UNCHANGED <<stories, now, last, nreq, req, snap, obj,
                   user_grammar, learning_sessions, other_known, reply,
                   exercises, exercise_attempts, grammar_inserts>>

\* the request ends before its commit (cancelled, connection lost, commit
\* refused): the session rolls back and its object is discarded
Abort(p) ==
    /\ pc[p] \in {"selected", "computed"}
    /\ pc' = [pc EXCEPT ![p] = IF pc[p] = "computed" THEN "failed" ELSE "cancelled"]
    /\ req' = [req EXCEPT ![p] = NoRequest]
    /\ snap' = [snap EXCEPT ![p] = NoRow]
    /\ obj' = [obj EXCEPT ![p] = NoRow]
    /\ UNCHANGED <<user_words, stories, now, last, nreq,
                   user_grammar, learning_sessions, other_known, reply,
                   exercises, exercise_attempts, grammar_inserts>>

InitConc ==
    \* one row of u1, as mark-known, story completion or seeding leaves it
    /\ user_words \in
         ({MarkKnown(EmptyTable, "u1", "w1"),
           MarkSeen(EmptyTable, "u1", <<"w1">>, 0),
           [EmptyTable EXCEPT ![1] = DefaultRow("u1", "w1")]})
    /\ stories = InitStories
    /\ now = 0
    /\ last = NoRequest
    /\ nreq = 0
    /\ pc = Idle
    /\ req = NoReq
    /\ snap = NoRows
    /\ obj = NoRows
    /\ user_grammar = NoGrammar
    /\ learning_sessions = NoSessions
    /\ other_known = 0
    /\ reply = NoReply
    /\ exercises = NoExercises
    /\ exercise_attempts = <<>>
    /\ grammar_inserts = NoInserts

\* the requests overlap within one tick of the clock
NextConc ==
    \E p \in Procs :
       \/ \E u \in Users, id \in RowIds, quality \in QualityInputs :
            Select(p, u, id, quality)
       \/ Compute(p, 0)
       \/ Commit(p)
       \/ Abort(p)

SpecConc == InitConc /\ [][NextConc]_vars

(* ----------------------------- read requests --------------------------- *)

\* datetime.date(): the calendar day of a timestamp
Date(t) == t \div Day

\* the user's rows with status KNOWN or MASTERED, counted: those of the table
\* and the other_known further ones for words outside Words
WordsKnown(tbl, u) ==
    Cardinality({id \in RowIds : /\ tbl[id] # NoRow
                                 /\ tbl[id].user_id = u
                                 /\ tbl[id].status \in {"KNOWN", "MASTERED"}})
      + other_known

\* DueList on a store that takes NULL for the earliest time
DueListNullFirst(tbl, u, t) ==
    {id \in RowIds : /\ tbl[id] # NoRow
                     /\ tbl[id].user_id = u
                     /\ tbl[id].next_review_at <= t
                     /\ tbl[id].status # "MASTERED"}

\* get_due_reviews: the where clause (a comparison with NULL is not true)
DueList(tbl, u, t) ==
    {id \in RowIds : /\ tbl[id] # NoRow
                     /\ tbl[id].user_id = u
                     /\ tbl[id].next_review_at # NULL
                     /\ tbl[id].next_review_at <= t
                     /\ tbl[id].status # "MASTERED"}

\* get_review_summary: the where clause of words_due
WordsDue(tbl, u, t) ==
    {id \in RowIds : /\ tbl[id] # NoRow
                     /\ tbl[id].user_id = u
                     /\ tbl[id].next_review_at # NULL
                     /\ tbl[id].next_review_at <= t
                     /\ tbl[id].status # "MASTERED"}

\* ReviewsDue that counts MASTERED rows too
ReviewsDueAnyStatus(tbl, u, t) ==
    {id \in RowIds : /\ tbl[id] # NoRow
                     /\ tbl[id].user_id = u
                     /\ tbl[id].next_review_at # NULL
                     /\ tbl[id].next_review_at <= t}

\* get_stats: the where clause of reviews_due
ReviewsDue(tbl, u, t) ==
    {id \in RowIds : /\ tbl[id] # NoRow
                     /\ tbl[id].user_id = u
                     /\ tbl[id].next_review_at # NULL
                     /\ tbl[id].next_review_at <= t
                     /\ tbl[id].status # "MASTERED"}

\* the orders in which a query can return the rows S
RECURSIVE Orderings(_)
Orderings(S) ==
    IF S = {} THEN {<<>>}
    ELSE UNION {{<<x>> \o rest : rest \in Orderings(S \ {x})} : x \in S}

\* order_by(UserWord.next_review_at): rows with equal keys in any order
ByNextReview(tbl, S) ==
    {f \in Orderings(S) :
       \A i, j \in DOMAIN f : i < j => tbl[f[i]].next_review_at <= tbl[f[j]].next_review_at}

\* .limit(n)
Limit(rows, n) == SubSeq(rows, 1, IF n < Len(rows) THEN n ELSE Len(rows))

\* GET /reviews/due
GetDueReviews(u, limit) ==
    /\ \E rows \in ByNextReview(user_words, DueList(user_words, u, now)) :
         reply' = [op |-> "get_due_reviews", user |-> u, at |-> now,
                   limit |-> limit, user_words |-> Limit(rows, limit)]
    /\ UNCHANGED <<user_words, stories, now, last, nreq, pc, req, snap, obj,
                   user_grammar, learning_sessions, other_known,
                   exercises, exercise_attempts, grammar_inserts>>

\* lines 103-112 of reviews.py: rows last seen since midnight
ReviewedToday(tbl, u, t) ==
    {id \in RowIds : /\ tbl[id] # NoRow
                     /\ tbl[id].user_id = u
                     /\ tbl[id].last_seen_at # NULL
                     /\ tbl[id].last_seen_at >= Date(t) * Day}

\* lines 114-127 of reviews.py: the earliest review still to come, or NULL
NextReviewTime(tbl, u, t) ==
    LET later == {tbl[id].next_review_at :
                    id \in {i \in RowIds : /\ tbl[i] # NoRow
                                           /\ tbl[i].user_id = u
                                           /\ tbl[i].next_review_at # NULL
                                           /\ tbl[i].next_review_at > t
                                           /\ tbl[i].status # "MASTERED"}}
    IN  IF later = {} THEN NULL ELSE CHOOSE x \in later : \A y \in later : x <= y

\* GET /reviews/summary
GetReviewSummary(u) ==
    /\ reply' = [op |-> "get_review_summary", user |-> u, at |-> now,
                 words_due |-> Cardinality(WordsDue(user_words, u, now)),
                 words_reviewed_today |-> Cardinality(ReviewedToday(user_words, u, now)),
                 next_review_time |-> NextReviewTime(user_words, u, now)]
    /\ UNCHANGED <<user_words, stories, now, last, nreq, pc, req, snap, obj,
                   user_grammar, learning_sessions, other_known,
                   exercises, exercise_attempts, grammar_inserts>>

\* DetermineLevel with the first cut-off one too late
DetermineLevelLate(words_known) ==
    IF words_known <= 100 THEN "A1"
    ELSE IF words_known < 300 THEN "A2"
    ELSE IF words_known < 600 THEN "B1"
    ELSE "B2"

\* _determine_level of users.py
DetermineLevel(words_known) ==
    IF words_known < 100 THEN "A1"
    ELSE IF words_known < 300 THEN "A2"
    ELSE IF words_known < 600 THEN "B1"
    ELSE "B2"

\* lines 149-159 of users.py: started_at of the user's ended sessions, latest first
RECURSIVE StartedDesc(_, _)
StartedDesc(tbl, S) ==
    IF S = {} THEN <<>>
    ELSE LET i == CHOOSE k \in S : \A j \in S : tbl[k].started_at >= tbl[j].started_at
         IN  <<tbl[i].started_at>> \o StartedDesc(tbl, S \ {i})

EndedSessions(tbl, u) ==
    {i \in SessionIds : tbl[i] # NoRow /\ tbl[i].user_id = u /\ tbl[i].ended_at # NULL}

\* StreakLoop that counts every session of the current day
RECURSIVE StreakLoopPerSession(_, _, _)
StreakLoopPerSession(sessions, streak, current_date) ==
    IF sessions = <<>> THEN streak
    ELSE LET session_date == Date(Head(sessions))
         IN  IF session_date = current_date
             THEN StreakLoopPerSession(Tail(sessions), streak + 1, current_date)
             ELSE IF session_date = current_date - 1
             THEN StreakLoopPerSession(Tail(sessions), streak + 1, session_date)
             ELSE streak

\* lines 167-175 of users.py: the loop over the sessions
RECURSIVE StreakLoop(_, _, _)
StreakLoop(sessions, streak, current_date) ==
    IF sessions = <<>> THEN streak
    ELSE LET session_date == Date(Head(sessions))
         IN  IF session_date = current_date
             THEN StreakLoop(Tail(sessions), Max(streak, 1), current_date)
             ELSE IF session_date = current_date - 1
             THEN StreakLoop(Tail(sessions), streak + 1, session_date)
             ELSE streak

\* _calculate_streak of users.py, with the clock reading t
CalculateStreak(tbl, u, t) ==
    LET sessions == StartedDesc(tbl, EndedSessions(tbl, u))
    IN  IF sessions = <<>> THEN 0 ELSE StreakLoop(sessions, 0, Date(t))

\* GET /users/stats: the clock is read for reviews_due and, d later, for the streak
GetStats(u, d) ==
    /\ d > 0 => now + d <= MaxClock
    /\ LET words_known == WordsKnown(user_words, u)
       IN  reply' = [op |-> "get_stats", user |-> u, at |-> now, streak_at |-> now + d,
                     words_known |-> words_known,
                     level |-> DetermineLevel(words_known),
                     streak_days |-> CalculateStreak(learning_sessions, u, now + d),
                     reviews_due |-> Cardinality(ReviewsDue(user_words, u, now))]
    /\ now' = now + d
    /\ UNCHANGED <<user_words, stories, last, nreq, pc, req, snap, obj,
                   user_grammar, learning_sessions, other_known,
                   exercises, exercise_attempts, grammar_inserts>>

(* ------------- read requests over the rows the table can hold ---------- *)

\* get_due_reviews: limit: int = Query(20, le=50)
DefaultLimit == 20

\* a row as its latest review and a later story completion at tick 0 left it
ReviewedRow(u, w, st, t) ==
    [DefaultRow(u, w) EXCEPT
       !.status = st,
       !.times_seen = 1,
       !.times_reviewed = 1,
       !.times_correct = IF st = "LEARNING" THEN 0 ELSE 1,
       !.familiarity = IF st = "LEARNING" THEN <<0, 1>> ELSE <<1, 1>>,
       !.srs_interval_days = IF st = "MASTERED" THEN 21 ELSE 1,
       !.last_seen_at = 0,
       !.next_review_at = t]

\* the rows a user can have for a word: none, never reviewed, or reviewed
\* with any status and any time of the next review
ReadRows(u, w) ==
    {NoRow, DefaultRow(u, w),
     [DefaultRow(u, w) EXCEPT !.status = "KNOWN", !.familiarity = <<4, 5>>]}
      \cup {ReviewedRow(u, w, st, t) :
              st \in {"LEARNING", "KNOWN", "MASTERED"}, t \in 0 .. MaxClock}

InitRead ==
    \* rows 1 and 2 are of u1; the others, of u2, are due from the start
    /\ user_words \in
         ({[id \in RowIds |-> IF id = 1 THEN r1 ELSE IF id = 2 THEN r2 ELSE r3] :
             r1 \in ReadRows("u1", "w1"), r2 \in ReadRows("u1", "w2"),
             r3 \in {NoRow, ReviewedRow("u2", "w1", "LEARNING", 0)}})
    /\ stories = InitStories
    /\ now = 0
    /\ last = NoRequest
    /\ nreq = 0
    /\ pc = Idle
    /\ req = NoReq
    /\ snap = NoRows
    /\ obj = NoRows
    /\ user_grammar = NoGrammar
    /\ learning_sessions = NoSessions
    /\ other_known = 0
    /\ reply = NoReply
    /\ exercises = NoExercises
    /\ exercise_attempts = <<>>
    /\ grammar_inserts = NoInserts

NextRead ==
    \/ \E u \in Users, limit \in {0, 1, DefaultLimit} : GetDueReviews(u, limit)
    \/ \E u \in Users : GetReviewSummary(u)
    \/ \E u \in Users, d \in 0 .. MaxSkew : GetStats(u, d)
    \/ Tick

SpecRead == InitRead /\ [][NextRead]_vars

(* ------------------------- stories: what comes next -------------------- *)

Range(seq) == {seq[i] : i \in DOMAIN seq}

\* the sequences of k different elements of S (of all of S when it has fewer)
RECURSIVE Arrangements(_, _)
Arrangements(S, k) ==
    IF k = 0 \/ S = {} THEN {<<>>}
    ELSE UNION {{<<x>> \o rest : rest \in Arrangements(S \ {x}, k - 1)} : x \in S}

\* select(UserWord.word_id).where(UserWord.user_id == user.id)
OwnedWords(tbl, u) ==
    {tbl[id].word_id : id \in {i \in RowIds : tbl[i] # NoRow /\ tbl[i].user_id = u}}

\* DetermineUserLevel with the cut-offs of the dashboard
DetermineUserLevelDashboard(words_known) ==
    IF words_known < 100 THEN "A1"
    ELSE IF words_known < 300 THEN "A2"
    ELSE IF words_known < 600 THEN "B1"
    ELSE "B2"

\* _determine_user_level of story_generator.py: lines 119-126
DetermineUserLevel(words_known) ==
    IF words_known < 50 THEN "A1"
    ELSE IF words_known < 150 THEN "A2"
    ELSE IF words_known < 400 THEN "B1"
    ELSE "B2"

\* ReadyLevel with the last cut-off one too late
ReadyLevelLate(words_known) ==
    IF words_known < 50 THEN "A1"
    ELSE IF words_known < 150 THEN "A2"
    ELSE IF words_known <= 400 THEN "B1"
    ELSE "B2"

\* lines 70-78 of stories.py
ReadyLevel(words_known) ==
    IF words_known < 50 THEN "A1"
    ELSE IF words_known < 150 THEN "A2"
    ELSE IF words_known < 400 THEN "B1"
    ELSE "B2"

\* AvailableNewWords that leaves out only the words the user knows
AvailableNewWordsNotKnown(tbl, u, level) ==
    LET known == {tbl[id].word_id :
                    id \in {i \in RowIds : /\ tbl[i] # NoRow
                                           /\ tbl[i].user_id = u
                                           /\ tbl[i].status \in {"KNOWN", "MASTERED"}}}
        fresh == {w \in WordIds : cefr_level[w] = level /\ w \notin known}
    IN  IF Cardinality(fresh) > 5 THEN 5 ELSE Cardinality(fresh)

\* lines 81-93 of stories.py: how many words the query returns under limit(5)
AvailableNewWords(tbl, u, level) ==
    LET fresh == {w \in WordIds : cefr_level[w] = level /\ w \notin OwnedWords(tbl, u)}
    IN  IF Cardinality(fresh) > 5 THEN 5 ELSE Cardinality(fresh)

\* GET /stories/ready
GetReadyStoryInfo(u) ==
    /\ LET words_known == WordsKnown(user_words, u)
           level == ReadyLevel(words_known)
           available == AvailableNewWords(user_words, u, level)
       IN  reply' = [op |-> "get_ready_story_info", user |-> u,
                     words_known |-> words_known,
                     ready |-> (available >= 3),
                     level |-> level,
                     new_words_available |-> available]
    /\ UNCHANGED <<user_words, stories, now, last, nreq, pc, req, snap, obj,
                   user_grammar, learning_sessions, other_known,
                   exercises, exercise_attempts, grammar_inserts>>

\* SelectNewWords that returns all it collected
SelectNewWordsUncut(tbl, u, level, include_ids) ==
    LET found == IF include_ids # <<>>
                 THEN {w \in WordIds : w \in Range(include_ids)} ELSE {}
        needed == Max(0, 3 - Cardinality(found))
        fresh == {w \in WordIds : /\ cefr_level[w] = level
                                  /\ w \notin OwnedWords(tbl, u)
                                  /\ w \notin found}
        extras == IF needed > 0 THEN Arrangements(fresh, needed + 2) ELSE {<<>>}
    IN  {included \o extra : included \in Orderings(found), extra \in extras}

\* _select_new_words: the lists it can return (the first query has no order,
\* the second is in random order)
SelectNewWords(tbl, u, level, include_ids) ==
    LET found == IF include_ids # <<>>
                 THEN {w \in WordIds : w \in Range(include_ids)} ELSE {}
        needed == Max(0, 3 - Cardinality(found))
        fresh == {w \in WordIds : /\ cefr_level[w] = level
                                  /\ w \notin OwnedWords(tbl, u)
                                  /\ w \notin found}
        extras == IF needed > 0 THEN Arrangements(fresh, needed + 2) ELSE {<<>>}
    IN  {Limit(included \o extra, 5) : included \in Orderings(found), extra \in extras}

\* order_by(GrammarConcept.sort_order): concepts with equal keys in any order
BySortOrder(S) ==
    {f \in Orderings(S) : \A i, j \in DOMAIN f : i < j => sort_order[f[i]] <= sort_order[f[j]]}

\* _get_available_grammar: the lists it can return
GetAvailableGrammar(grammar, u, focus_id) ==
    IF focus_id # NONE /\ focus_id \in ConceptIds THEN {<<focus_id>>}
    ELSE {Limit(concepts, 2) :
            concepts \in BySortOrder({g \in ConceptIds :
                                        grammar[u, g] \in {"LEARNING", "AVAILABLE"}})}

FreeStoryIds == {sid \in StoryIds : stories[sid] = NoRow}

\* _parse_response: the exercises of story_data; text that json.loads rejects
\* becomes the basic structure of lines 312-321
ParseResponse(response) ==
    IF response = "unparsable"
    THEN [title |-> "Generated Story", exercises |-> <<>>]
    ELSE [title |-> "title",
          exercises |->
            <<[type |-> IF response = "json" THEN "FILL_BLANK" ELSE "ESSAY",
               correct_answer |-> <<"c", "h", "o", "t", "a">>]>>]

FreeExerciseIds(tbl) == {e \in ExerciseIds : tbl[e] = NoRow}

\* lines 91-101: one exercises row for each entry of story_data["exercises"]
RECURSIVE AddExercises(_, _, _)
AddExercises(tbl, sid, data) ==
    IF data = <<>> THEN tbl
    ELSE LET e == CHOOSE id \in FreeExerciseIds(tbl) : TRUE
         IN  AddExercises([tbl EXCEPT ![e] = Exercise(sid, Head(data).type,
                                                     Head(data).correct_answer)],
                          sid, Tail(data))

\* POST /stories/generate
GenerateStory(u, include_word_ids, focus_grammar_id, difficulty_override, response) ==
    /\ FreeStoryIds # {}
    /\ LET level == IF difficulty_override # NONE THEN difficulty_override
                    ELSE DetermineUserLevel(WordsKnown(user_words, u))
           sid == CHOOSE id \in FreeStoryIds : TRUE
           story_data == ParseResponse(response)
       IN  \E new_words \in SelectNewWords(user_words, u, level, include_word_ids),
              grammar_concepts \in GetAvailableGrammar(user_grammar, u, focus_grammar_id) :
              IF \/ response = "raises"
                 \/ \E i \in DOMAIN story_data.exercises :
                      story_data.exercises[i].type \notin ExerciseType
              THEN \* the exception leaves the handler before the commit of line 103
                   /\ reply' = [op |-> "generate_story_500", user |-> u,
                                response |-> response]
                   /\ UNCHANGED <<stories, exercises>>
              ELSE /\ Len(story_data.exercises) <= Cardinality(FreeExerciseIds(exercises))
                   /\ stories' = [stories EXCEPT
                                    ![sid] = NewStory(u, new_words, grammar_concepts, level)]
                   /\ exercises' = AddExercises(exercises, sid, story_data.exercises)
                   /\ reply' = [op |-> "generate_story", user |-> u, id |-> sid,
                                include_word_ids |-> include_word_ids,
                                focus_grammar_id |-> focus_grammar_id,
                                difficulty_override |-> difficulty_override,
                                response |-> response]
    /\ UNCHANGED <<user_words, now, last, nreq, pc, req, snap, obj,
                   user_grammar, learning_sessions, other_known,
                   exercise_attempts, grammar_inserts>>

(* ------------------- the level tables on any words-known count --------- *)

InitLevel ==
    \* a user with no row yet, or with one word marked known
    /\ user_words \in {EmptyTable, MarkKnown(EmptyTable, "u1", "w1")}
    /\ other_known \in 0 .. MaxKnown
    /\ stories = InitStories
    /\ now = 0
    /\ last = NoRequest
    /\ nreq = 0
    /\ pc = Idle
    /\ req = NoReq
    /\ snap = NoRows
    /\ obj = NoRows
    /\ user_grammar = NoGrammar
    /\ learning_sessions = NoSessions
    /\ reply = NoReply
    /\ exercises = NoExercises
    /\ exercise_attempts = <<>>
    /\ grammar_inserts = NoInserts

NextLevel ==
    \/ \E u \in Users : GetStats(u, 0)
    \/ \E u \in Users : GetReadyStoryInfo(u)
    \/ \E u \in Users, response \in {"raises", "json"} :
          GenerateStory(u, <<>>, NONE, NONE, response)

SpecLevel == InitLevel /\ [][NextLevel]_vars

(* ------------------ the streak on any sessions of a user --------------- *)

\* the sessions a user can have started by the instant t: open, or ended a
\* tick after they started
SessionRows(u, t) ==
    UNION {{[user_id |-> u, started_at |-> s, ended_at |-> e] : e \in {NULL, s + 1}} :
             s \in 0 .. t}

\* sessions of u1 in the order they started; the last row may be a session
\* of u2 instead
SessionTables(t) ==
    {tbl \in [SessionIds -> {NoRow} \cup SessionRows("u1", t) \cup SessionRows("u2", 0)] :
       /\ \A i \in SessionIds :
            (tbl[i] # NoRow /\ tbl[i].user_id = "u2") => i = MaxSessions
       /\ \A i, j \in SessionIds :
            (i < j /\ tbl[j] # NoRow /\ tbl[j].user_id = "u1")
               => (tbl[i] # NoRow /\ tbl[i].started_at <= tbl[j].started_at)}

InitStreak ==
    /\ now \in {StreakDays * Day, StreakDays * Day + 1}
    /\ learning_sessions \in SessionTables(now)
    /\ user_words = EmptyTable
    /\ stories = InitStories
    /\ last = NoRequest
    /\ nreq = 0
    /\ pc = Idle
    /\ req = NoReq
    /\ snap = NoRows
    /\ obj = NoRows
    /\ user_grammar = NoGrammar
    /\ other_known = 0
    /\ reply = NoReply
    /\ exercises = NoExercises
    /\ exercise_attempts = <<>>
    /\ grammar_inserts = NoInserts

NextStreak == \E u \in Users : GetStats(u, 0)

SpecStreak == InitStreak /\ [][NextStreak]_vars

(* --------------- readiness and generation for any request -------------- *)

\* StoryGenerateRequest: include_word_ids (none, owned, repeated, unknown,
\* of several levels, six of them), focus_grammar_id, difficulty_override
StoryRequests ==
    {<<<<>>, NONE, NONE>>,
     <<<<>>, "g2", NONE>>,
     <<<<>>, "g9", "A2">>,
     <<<<"w1">>, NONE, NONE>>,
     <<<<"w3", "w3">>, NONE, "A2">>,
     <<<<"w9">>, "g2", NONE>>,
     <<<<"w5", "w6", "w7", "w8">>, NONE, NONE>>,
     <<<<"w1", "w2", "w3", "w4", "w5", "w8">>, NONE, NONE>>}

InitStory ==
    \* user_words as story completion, mark-known and reviews leave it
    /\ user_words \in
         (LET seen == MarkSeen(EmptyTable, "u1", <<"w1", "w2">>, 0)
          IN  {EmptyTable,
               seen,
               MarkKnown(seen, "u1", "w5"),
               [seen EXCEPT ![3] = ReviewedRow("u1", "w3", "MASTERED", 0)],
               MarkKnown(EmptyTable, "u1", "w1"),
               MarkSeen(EmptyTable, "u2", <<"w1", "w2", "w3">>, 0)})
    \* user_grammars: nothing, one concept open, or all three open
    /\ user_grammar \in
         ({NoGrammar,
           [NoGrammar EXCEPT !["u1", "g1"] = "AVAILABLE", !["u2", "g2"] = "LEARNING"],
           [NoGrammar EXCEPT !["u1", "g1"] = "LEARNING", !["u1", "g2"] = "LEARNING",
                             !["u1", "g3"] = "AVAILABLE"]})
    \* words-known counts on either side of the first cut-off
    /\ other_known \in {0, 50}
    /\ stories = InitStories
    /\ now = 0
    /\ last = NoRequest
    /\ nreq = 0
    /\ pc = Idle
    /\ req = NoReq
    /\ snap = NoRows
    /\ obj = NoRows
    /\ learning_sessions = NoSessions
    /\ reply = NoReply
    /\ exercises = NoExercises
    /\ exercise_attempts = <<>>
    /\ grammar_inserts = InsertsOf(user_grammar)

NextStory ==
    \/ \E u \in Users : GetReadyStoryInfo(u)
    \* what _call_claude comes to: it raises (service unreachable, timeout, API
    \* error), or returns text that is not JSON, or the JSON asked for with one
    \* exercise, or that JSON with an exercise of a type ExerciseType does not have
    \/ \E u \in Users, request \in StoryRequests,
          response \in {"raises", "unparsable", "json", "json_bad_exercise"} :
          GenerateStory(u, request[1], request[2], request[3], response)

SpecStory == InitStory /\ [][NextStory]_vars

(* --------------------------- grammar: unlock --------------------------- *)

\* LearnedPrereqs without the user_id condition of the select
LearnedPrereqsOfAnyone(grammar, u, g) ==
    {p \in Range(prerequisite_ids[g]) \cap ConceptIds :
       \E v \in Users : grammar[v, p] = "LEARNED"}

\* LearnedPrereqs that takes an unlocked prerequisite for a learned one
LearnedPrereqsUnlocked(grammar, u, g) ==
    {p \in Range(prerequisite_ids[g]) \cap ConceptIds :
       grammar[u, p] \in {"AVAILABLE", "LEARNED"}}

\* lines 130-139 of grammar.py: the user's LEARNED rows among the prerequisites
LearnedPrereqs(grammar, u, g) ==
    {p \in Range(prerequisite_ids[g]) \cap ConceptIds : grammar[u, p] = "LEARNED"}

\* POST /grammar/{concept_id}/unlock
UnlockGrammarConcept(u, g) ==
    /\ IF g \notin ConceptIds
       THEN \* lines 122-126
            /\ reply' = [op |-> "unlock_grammar_concept_404", user |-> u, concept_id |-> g]
            /\ UNCHANGED <<user_grammar, grammar_inserts>>
       ELSE IF /\ prerequisite_ids[g] # <<>>
               /\ Cardinality(LearnedPrereqs(user_grammar, u, g)) < Len(prerequisite_ids[g])
       THEN \* lines 140-144
            /\ reply' = [op |-> "unlock_grammar_concept_400", user |-> u, concept_id |-> g]
            /\ UNCHANGED <<user_grammar, grammar_inserts>>
       ELSE /\ user_grammar' =
                 [user_grammar EXCEPT
                    ![u, g] = IF @ \in {"none", "LOCKED"} THEN "AVAILABLE" ELSE @]
            /\ grammar_inserts' =
                 [grammar_inserts EXCEPT
                    ![u, g] = IF user_grammar[u, g] = "none" THEN @ + 1 ELSE @]
            /\ reply' = [op |-> "unlock_grammar_concept", user |-> u, concept_id |-> g,
                         pre |-> user_grammar[u, g], status |-> "AVAILABLE"]
    /\ UNCHANGED <<user_words, stories, now, last, nreq, pc, req, snap, obj,
                   learning_sessions, other_known,
                   exercises, exercise_attempts>>

InitUnlock ==
    \* user_grammars as the table can hold it: any rows of u1, and u2 may have
    \* learned the first concept
    /\ user_grammar \in
         ({tbl \in [Users \X ConceptIds -> {"none"} \cup GrammarStatus] :
             /\ tbl["u2", "g1"] \in {"none", "LEARNED"}
             /\ \A g \in ConceptIds \ {"g1"} : tbl["u2", g] = "none"})
    /\ user_words = EmptyTable
    /\ stories = InitStories
    /\ now = 0
    /\ last = NoRequest
    /\ nreq = 0
    /\ pc = Idle
    /\ req = NoReq
    /\ snap = NoRows
    /\ obj = NoRows
    /\ learning_sessions = NoSessions
    /\ other_known = 0
    /\ reply = NoReply
    /\ exercises = NoExercises
    /\ exercise_attempts = <<>>
    /\ grammar_inserts = InsertsOf(user_grammar)

NextUnlock == \E u \in Users, g \in ConceptIds \cup {"g9"} : UnlockGrammarConcept(u, g)

SpecUnlock == InitUnlock /\ [][NextUnlock]_vars

(* --------------------------- exercise grading ------------------------- *)

\* a Python str is the sequence of its characters, one string per character
UpperCase == <<"A", "B", "C", "D", "E", "F", "G", "H", "I", "J", "K", "L", "M",
               "N", "O", "P", "Q", "R", "S", "T", "U", "V", "W", "X", "Y", "Z">>

LowerCase == <<"a", "b", "c", "d", "e", "f", "g", "h", "i", "j", "k", "l", "m",
               "n", "o", "p", "q", "r", "s", "t", "u", "v", "w", "x", "y", "z">>

\* str.lower()
Lower(text) ==
    [i \in DOMAIN text |->
       IF \E k \in DOMAIN UpperCase : UpperCase[k] = text[i]
       THEN LowerCase[CHOOSE k \in DOMAIN UpperCase : UpperCase[k] = text[i]]
       ELSE text[i]]

\* str.strip(): leading and trailing whitespace removed
RECURSIVE Strip(_)
Strip(text) ==
    IF text = <<>> THEN text
    ELSE IF Head(text) = " " THEN Strip(Tail(text))
    ELSE IF text[Len(text)] = " " THEN Strip(SubSeq(text, 1, Len(text) - 1))
    ELSE text

\* str.replace(old, new): the occurrences found scanning from the left, an
\* occurrence never overlapping the one replaced before it
RECURSIVE Replace(_, _, _)
Replace(text, old, new) ==
    IF Len(text) < Len(old) THEN text
    ELSE IF SubSeq(text, 1, Len(old)) = old
    THEN new \o Replace(SubSeq(text, Len(old) + 1, Len(text)), old, new)
    ELSE <<Head(text)>> \o Replace(Tail(text), old, new)

\* line 130: text.lower().strip().replace("  ", " ")
Normalize(text) == Replace(Strip(Lower(text)), <<" ", " ">>, <<" ">>)

\* lines 158-170: the replacements dict, in its insertion order
replacements ==
    <<<<(<<"a", "a">>), (<<"a">>)>>, <<(<<"e", "e">>), (<<"i">>)>>,
      <<(<<"o", "o">>), (<<"u">>)>>, <<(<<"s", "h">>), (<<"s">>)>>,
      <<(<<"t", "h">>), (<<"t">>)>>, <<(<<"d", "h">>), (<<"d">>)>>,
      <<(<<"b", "h">>), (<<"b">>)>>, <<(<<"p", "h">>), (<<"f">>)>>,
      <<(<<"k", "h">>), (<<"k">>)>>, <<(<<"g", "h">>), (<<"g">>)>>,
      <<(<<"c", "h", "h">>), (<<"c", "h">>)>>>>

\* lines 171-174: one replace after the other, from pair k on
RECURSIVE SimplifyFrom(_, _)
SimplifyFrom(result, k) ==
    IF k > Len(replacements) THEN result
    ELSE SimplifyFrom(Replace(result, replacements[k][1], replacements[k][2]), k + 1)

\* _simplify_romanization
SimplifyRomanization(text) == SimplifyFrom(text, 1)

Min(a, b) == IF a <= b THEN a ELSE b

\* lines 187-191: current_row grows by one entry for each character of s2
RECURSIVE CurrentRow(_, _, _, _)
CurrentRow(current_row, previous_row, c1, s2) ==
    LET j == Len(current_row)
    IN  IF j > Len(s2) THEN current_row
        ELSE LET insertions == previous_row[j + 1] + 1
                 deletions == current_row[j] + 1
                 substitutions == previous_row[j] + (IF c1 # s2[j] THEN 1 ELSE 0)
             IN  CurrentRow(Append(current_row,
                                   Min(insertions, Min(deletions, substitutions))),
                            previous_row, c1, s2)

\* lines 185-192: the outer loop from the i-th character of s1 on
RECURSIVE PreviousRow(_, _, _, _)
PreviousRow(previous_row, s1, i, s2) ==
    IF i > Len(s1) THEN previous_row
    ELSE PreviousRow(CurrentRow(<<i>>, previous_row, s1[i], s2), s1, i + 1, s2)

\* _levenshtein_distance
LevenshteinDistance(s1, s2) ==
    LET long == IF Len(s1) < Len(s2) THEN s2 ELSE s1
        short == IF Len(s1) < Len(s2) THEN s1 ELSE s2
    IN  IF Len(short) = 0 THEN Len(long)
        ELSE LET last_row == PreviousRow([k \in 1 .. Len(short) + 1 |-> k - 1],
                                         long, 1, short)
             IN  last_row[Len(last_row)]

\* FuzzyMatch with the threshold chosen by the length of expected as given
FuzzyMatchRawLength(answer, expected) ==
    LET answer_normalized == Normalize(answer)
        expected_normalized == Normalize(expected)
    IN  \/ answer_normalized = expected_normalized
        \/ SimplifyRomanization(answer_normalized)
             = SimplifyRomanization(expected_normalized)
        \/ IF Len(expected) <= 6
           THEN LevenshteinDistance(answer_normalized, expected_normalized) <= 1
           ELSE LevenshteinDistance(answer_normalized, expected_normalized) <= 2

\* _fuzzy_match, lines 132-154
FuzzyMatch(answer, expected) ==
    LET answer_normalized == Normalize(answer)
        expected_normalized == Normalize(expected)
    IN  \/ answer_normalized = expected_normalized
        \/ SimplifyRomanization(answer_normalized)
             = SimplifyRomanization(expected_normalized)
        \/ IF Len(expected_normalized) <= 6
           THEN LevenshteinDistance(answer_normalized, expected_normalized) <= 1
           ELSE LevenshteinDistance(answer_normalized, expected_normalized) <= 2

\* what messages.create and the parse of its text come to (lines 94-115)
LlmFailures == {"raises", "timeout", "unparsable", "not_an_object"}

EvaluationResult(is_correct, feedback) ==
    [is_correct |-> is_correct, feedback |-> feedback]

\* EvaluateWithLlm whose except branch answers False
EvaluateWithLlmStrict(exercise, user_answer, llm) ==
    IF llm \in LlmFailures
    THEN EvaluationResult(FALSE, "Expected something like")
    ELSE EvaluationResult(llm = "is_correct_true", "llm")

\* evaluate_with_llm, lines 72-126
EvaluateWithLlm(exercise, user_answer, llm) ==
    IF llm \in LlmFailures
    THEN \* except Exception
         LET is_correct == FuzzyMatch(user_answer, exercise.correct_answer)
         IN  EvaluationResult(is_correct,
                              IF is_correct THEN "Good attempt!"
                              ELSE "Expected something like")
    ELSE \* result.get("is_correct", False)
         EvaluationResult(llm = "is_correct_true", "llm")

\* evaluate, lines 24-70
Evaluate(exercise, user_answer, llm) ==
    IF exercise.type \in {"MULTIPLE_CHOICE", "COMPREHENSION"}
    THEN LET is_correct == Normalize(user_answer) = Normalize(exercise.correct_answer)
         IN  EvaluationResult(is_correct,
                              IF is_correct THEN "None" ELSE "The correct answer was")
    ELSE IF exercise.type = "FILL_BLANK"
    THEN LET is_correct == FuzzyMatch(user_answer, exercise.correct_answer)
         IN  EvaluationResult(is_correct, IF is_correct THEN "None" ELSE "Expected")
    ELSE IF exercise.type \in {"TRANSLATE_TO_HINDI", "TRANSLATE_TO_ENGLISH"}
    THEN EvaluateWithLlm(exercise, user_answer, llm)
    ELSE IF exercise.type = "WORD_ORDER"
    THEN LET is_correct == Normalize(user_answer) = Normalize(exercise.correct_answer)
         IN  EvaluationResult(is_correct, IF is_correct THEN "None" ELSE "Correct order")
    ELSE EvaluationResult(FALSE, "Unknown exercise type")

\* select(Exercise).join(Story).where(Exercise.id == exercise_id,
\*                                     Story.user_id == current_user.id)
ExerciseOf(u, e) ==
    /\ e \in ExerciseIds
    /\ exercises[e] # NoRow
    /\ stories[exercises[e].story_id] # NoRow
    /\ stories[exercises[e].story_id].user_id = u

\* the collaborator is called for the translation exercises only
Called(exercise, llm) ==
    IF exercise.type \in {"TRANSLATE_TO_HINDI", "TRANSLATE_TO_ENGLISH"}
    THEN llm ELSE "not_called"

\* POST /exercises/{exercise_id}/submit
SubmitExercise(u, e, user_answer, llm) ==
    /\ IF ~ExerciseOf(u, e)
       THEN /\ reply' = [op |-> "submit_exercise_404", user |-> u, exercise_id |-> e]
            /\ UNCHANGED exercise_attempts
       ELSE LET evaluation == Evaluate(exercises[e], user_answer, llm)
            IN  /\ Len(exercise_attempts) < MaxAttempts
                /\ exercise_attempts' =
                     Append(exercise_attempts,
                            [user_id |-> u, exercise_id |-> e,
                             user_answer |-> user_answer,
                             is_correct |-> evaluation.is_correct,
                             feedback |-> evaluation.feedback])
                /\ reply' = [op |-> "submit_exercise", user |-> u, exercise_id |-> e,
                             user_answer |-> user_answer,
                             llm |-> Called(exercises[e], llm),
                             is_correct |-> evaluation.is_correct,
                             correct_answer |-> exercises[e].correct_answer,
                             feedback |-> evaluation.feedback]
    /\ UNCHANGED <<user_words, stories, now, last, nreq, pc, req, snap, obj,
                   user_grammar, learning_sessions, other_known,
                   exercises, grammar_inserts>>

\* POST /exercises/{exercise_id}/evaluate
EvaluateFreeText(u, e, user_answer, llm) ==
    /\ IF ~ExerciseOf(u, e)
       THEN reply' = [op |-> "evaluate_free_text_404", user |-> u, exercise_id |-> e]
       ELSE LET evaluation == EvaluateWithLlm(exercises[e], user_answer, llm)
            IN  reply' = [op |-> "evaluate_free_text", user |-> u, exercise_id |-> e,
                          user_answer |-> user_answer, llm |-> llm,
                          is_correct |-> evaluation.is_correct,
                          correct_answer |-> exercises[e].correct_answer,
                          feedback |-> evaluation.feedback]
    /\ UNCHANGED <<user_words, stories, now, last, nreq, pc, req, snap, obj,
                   user_grammar, learning_sessions, other_known,
                   exercises, exercise_attempts, grammar_inserts>>

(* ------------- the fallback grading on any answer near the expected ---- *)

\* text with one character deleted, replaced by c or with c inserted
Near(text, cs) ==
    {SubSeq(text, 1, i - 1) \o SubSeq(text, i + 1, Len(text)) : i \in DOMAIN text}
    \cup {[text EXCEPT ![i] = c] : i \in DOMAIN text, c \in cs}
    \cup {SubSeq(text, 1, i - 1) \o <<c>> \o SubSeq(text, i, Len(text)) :
            i \in 1 .. Len(text) + 1, c \in cs}

\* text after at most k typing slips, a slip dropping a character or
\* hitting x
RECURSIVE Slips(_, _)
Slips(text, k) ==
    IF k = 0 THEN {text}
    ELSE LET fewer == Slips(text, k - 1)
         IN  fewer \cup UNION {Near(t, {"x"}) : t \in fewer}

\* correct_answer of the exercise graded
ExpectedAnswers ==
    {<<"c", "h", "o", "t", "a">>,
     <<"K", "i", "t", "a", "a", "b", " ">>,
     <<"k", "a", " ", "g", "h", "a", "r">>,
     <<"b", "h", "a", "a", "s", "h", "a", "a", "o", "n">>}

\* answers that differ from an expected one in case, spacing or romanization
VariantAnswers ==
    {<<"c", "h", "h", "o", "t", "a">>,
     <<" ", "C", "h", "o", "t", "a", " ">>,
     <<"k", "a", " ", " ", "g", "h", "a", "r">>,
     <<"k", "a", " ", " ", " ", "g", "h", "a", "r">>,
     <<"k", "i", "t", "a", "b">>,
     <<"b", "h", "a", "s", "a", "o", "n">>,
     <<"b", "a", "s", "a", "o", "n">>}

InitFuzzy ==
    \* one translation exercise of u1's story s1
    /\ exercises \in
         ({[NoExercises EXCEPT !["e1"] = Exercise("s1", "TRANSLATE_TO_ENGLISH", expected)] :
             expected \in ExpectedAnswers})
    /\ exercise_attempts = <<>>
    /\ user_words = EmptyTable
    /\ stories = InitStories
    /\ now = 0
    /\ last = NoRequest
    /\ nreq = 0
    /\ pc = Idle
    /\ req = NoReq
    /\ snap = NoRows
    /\ obj = NoRows
    /\ user_grammar = NoGrammar
    /\ learning_sessions = NoSessions
    /\ other_known = 0
    /\ reply = NoReply
    /\ grammar_inserts = NoInserts

\* one request, the collaborator failing
NextFuzzy ==
    /\ reply = NoReply
    \* user_answer of the request
    /\ \E user_answer \in (Slips(exercises["e1"].correct_answer, MaxEdits) \cup VariantAnswers) :
         EvaluateFreeText("u1", "e1", user_answer, "raises")

SpecFuzzy == InitFuzzy /\ [][NextFuzzy]_vars

(* ------------------- exercises of every type being graded -------------- *)

InitEval ==
    \* one exercise of any type in u1's story s1
    /\ exercises \in
         ({[NoExercises EXCEPT !["e1"] = Exercise("s1", type, <<"c", "h", "o", "t", "a">>)] :
             type \in ExerciseType})
    /\ exercise_attempts = <<>>
    /\ user_words = EmptyTable
    /\ stories = InitStories
    /\ now = 0
    /\ last = NoRequest
    /\ nreq = 0
    /\ pc = Idle
    /\ req = NoReq
    /\ snap = NoRows
    /\ obj = NoRows
    /\ user_grammar = NoGrammar
    /\ learning_sessions = NoSessions
    /\ other_known = 0
    /\ reply = NoReply
    /\ grammar_inserts = NoInserts

\* answers of the owner and of another user, to e1 and to no exercise: right,
\* a romanization variant, wrong; the collaborator fails, or returns the
\* grading JSON with is_correct true or false, or JSON without is_correct
NextEval ==
    \E u \in Users, e \in {"e1", "e3"},
       user_answer \in {<<"c", "h", "o", "t", "a">>,
                        <<"c", "h", "h", "o", "t", "a">>,
                        <<"x">>},
       llm \in LlmFailures \cup {"is_correct_true", "is_correct_false", "no_is_correct"} :
       SubmitExercise(u, e, user_answer, llm)

SpecEval == InitEval /\ [][NextEval]_vars

(* ----------- requests that create rows, running concurrently ----------- *)

\* the user_words rows the selects of a session load: those of u for wids
Loaded(tbl, u, wids) ==
    [id \in RowIds |->
       IF tbl[id] # NoRow /\ tbl[id].user_id = u /\ tbl[id].word_id \in Range(wids)
       THEN tbl[id] ELSE NoRow]

\* an INSERT is let through whatever rows the table holds
NoConstraint(tbl, rows) == FALSE

\* uq_user_word: an INSERT of one of rows finds its (user_id, word_id) taken
UniqueViolation(tbl, rows) ==
    \E r \in rows : RowsOf(tbl, r.user_id, r.word_id) # {}

\* the INSERTs of a flush
RECURSIVE InsertRows(_, _)
InsertRows(tbl, rows) ==
    IF rows = {} THEN tbl
    ELSE LET r == CHOOSE x \in rows : TRUE
         IN  InsertRows([tbl EXCEPT ![NewId(tbl)] = r], rows \ {r})

\* POST /words/{word_id}/mark-known up to its commit: the select of lines
\* 165-172 and the object changed or created in the session
BeginMarkWordKnown(p, u, w) ==
    /\ pc[p] = "idle"
    /\ IF w \notin WordIds
       THEN /\ pc' = [pc EXCEPT ![p] = "rejected"]
            /\ UNCHANGED <<req, snap, obj>>
       ELSE /\ pc' = [pc EXCEPT ![p] = "loaded"]
            /\ req' = [req EXCEPT ![p] = [op |-> "mark_word_known", user |-> u,
                                          story_id |-> NONE]]
            /\ snap' = [snap EXCEPT ![p] = Loaded(user_words, u, <<w>>)]
            /\ obj' = [obj EXCEPT ![p] = MarkKnown(Loaded(user_words, u, <<w>>), u, w)]
    /\ UNCHANGED <<user_words, stories, now, last, nreq,
                   user_grammar, learning_sessions, other_known, reply,
                   exercises, exercise_attempts, grammar_inserts>>

\* POST /stories/{story_id}/complete up to its commit: the selects of the
\* loop and the objects changed or created in the session
BeginCompleteStory(p, u, sid) ==
    /\ pc[p] = "idle"
    /\ IF sid \notin StoryIds \/ stories[sid].user_id # u
       THEN /\ pc' = [pc EXCEPT ![p] = "rejected"]
            /\ UNCHANGED <<req, snap, obj>>
       ELSE LET wids == stories[sid].target_new_word_ids
            IN  /\ pc' = [pc EXCEPT ![p] = "loaded"]
                /\ req' = [req EXCEPT ![p] = [op |-> "complete_story", user |-> u,
                                              story_id |-> sid]]
                /\ snap' = [snap EXCEPT ![p] = Loaded(user_words, u, wids)]
                /\ obj' = [obj EXCEPT
                             ![p] = MarkSeen(Loaded(user_words, u, wids), u, wids, now)]
    /\ UNCHANGED <<user_words, stories, now, last, nreq,
                   user_grammar, learning_sessions, other_known, reply,
                   exercises, exercise_attempts, grammar_inserts>>

\* the objects of the session that its selects did not load
Created(p) == {obj[p][id] : id \in {i \in RowIds : snap[p][i] = NoRow}} \ {NoRow}

\* db.commit() of mark_word_known and complete_story: an UPDATE for each row
\* loaded, an INSERT for each object created; an INSERT the unique constraint
\* refuses raises IntegrityError and the transaction is rolled back
CommitWords(p) ==
    /\ pc[p] = "loaded"
    /\ IF UniqueViolation(user_words, Created(p))
       THEN /\ pc' = [pc EXCEPT ![p] = "failed"]
            /\ UNCHANGED <<user_words, stories>>
       ELSE /\ Cardinality(Created(p)) <= Cardinality(FreeIds(user_words))
            /\ user_words' =
                 InsertRows([id \in RowIds |->
                               IF snap[p][id] # NoRow
                               THEN Flush(user_words[id], snap[p][id], obj[p][id])
                               ELSE user_words[id]],
                            Created(p))
            /\ stories' = IF req[p].op = "complete_story"
                          THEN [stories EXCEPT ![req[p].story_id].completed_at = now]
                          ELSE stories
            /\ pc' = [pc EXCEPT ![p] = "done"]
    /\ UNCHANGED <<now, last, nreq, req, snap, obj,
                   user_grammar, learning_sessions, other_known, reply,
                   exercises, exercise_attempts, grammar_inserts>>

\* POST /grammar/{concept_id}/unlock up to its commit: the selects of lines
\* 113-155 and the status of the row found, "none" where there is none
BeginUnlock(p, u, g) ==
    /\ pc[p] = "idle"
    /\ IF \/ g \notin ConceptIds
          \/ /\ prerequisite_ids[g] # <<>>
             /\ Cardinality(LearnedPrereqs(user_grammar, u, g)) < Len(prerequisite_ids[g])
       THEN /\ pc' = [pc EXCEPT ![p] = "rejected"]
            /\ UNCHANGED <<req, snap>>
       ELSE /\ pc' = [pc EXCEPT ![p] = "unlocking"]
            /\ req' = [req EXCEPT ![p] = [op |-> "unlock_grammar_concept", user |-> u,
                                          concept_id |-> g]]
            /\ snap' = [snap EXCEPT ![p] = [user_id |-> u, status |-> user_grammar[u, g]]]
    /\ UNCHANGED <<user_words, stories, now, last, nreq, obj,
                   user_grammar, learning_sessions, other_known, reply,
                   exercises, exercise_attempts, grammar_inserts>>

\* db.commit() of unlock_grammar_concept: the INSERT of a new row, which
\* uq_user_grammar refuses if the key is taken by now, or the UPDATE of a
\* LOCKED row, or nothing
CommitUnlock(p) ==
    /\ pc[p] = "unlocking"
    /\ LET u == req[p].user
           g == req[p].concept_id
       IN  IF snap[p].status = "none"
           THEN IF user_grammar[u, g] # "none"
                THEN /\ pc' = [pc EXCEPT ![p] = "failed"]
                     /\ UNCHANGED <<user_grammar, grammar_inserts>>
                ELSE /\ user_grammar' = [user_grammar EXCEPT ![u, g] = "AVAILABLE"]
                     /\ grammar_inserts' = [grammar_inserts EXCEPT ![u, g] = @ + 1]
                     /\ pc' = [pc EXCEPT ![p] = "done"]
           ELSE /\ user_grammar' =
                     [user_grammar EXCEPT
                        ![u, g] = IF snap[p].status = "LOCKED" THEN "AVAILABLE" ELSE @]
                /\ UNCHANGED grammar_inserts
                /\ pc' = [pc EXCEPT ![p] = "done"]
    /\ UNCHANGED <<user_words, stories, now, last, nreq, req, snap, obj,
                   learning_sessions, other_known, reply,
                   exercises, exercise_attempts>>

InitDup ==
    /\ user_words \in InitTables
    /\ stories = InitStories
    /\ now = 0
    /\ last = NoRequest
    /\ nreq = 0
    /\ pc = Idle
    /\ req = NoReq
    /\ snap = NoRows
    /\ obj = NoRows
    /\ user_grammar = NoGrammar
    /\ learning_sessions = NoSessions
    /\ other_known = 0
    /\ reply = NoReply
    /\ exercises = NoExercises
    /\ exercise_attempts = <<>>
    /\ grammar_inserts = NoInserts

\* the requests overlap within one tick of the clock
NextDup ==
    \E p \in Procs :
       \/ \E u \in Users, w \in Words \cup {"w0"} : BeginMarkWordKnown(p, u, w)
       \/ \E u \in Users, sid \in StoryIds : BeginCompleteStory(p, u, sid)
       \/ CommitWords(p)
       \/ \E u \in Users, g \in {"g1", "g2"} : BeginUnlock(p, u, g)
       \/ CommitUnlock(p)

SpecDup == InitDup /\ [][NextDup]_vars

(* ------- one review in flight while others are handled to the end ------ *)

\* a review request of u1 for its row loads the row, and before it commits,
\* further reviews of the row are handled from select to commit
NextOverlap ==
    \/ \E quality \in QualityInputs : Select(1, "u1", 1, quality)
    \/ Compute(1, 0)
    \/ Commit(1)
    \/ /\ nreq < MaxRequests
       /\ \E quality \in Qualities : SubmitReview("u1", 1, quality, 0)

SpecOverlap == InitConc /\ [][NextOverlap]_vars

(* -------- rows created, time passing, and the due queries over them ---- *)

\* u2 marks words known, completes its story and reviews its rows, the clock
\* ticks, and u2 asks what is due
NextDue ==
    \/ /\ nreq < MaxRequests
       /\ \/ \E id \in RowIds, quality \in {0, 5} : SubmitReview("u2", id, quality, 0)
          \/ \E w \in Words : MarkWordKnown("u2", w)
          \/ CompleteStory("u2", "s2", NULL, 0)
    \/ Tick
    \/ GetDueReviews("u2", DefaultLimit)
    \/ GetReviewSummary("u2")
    \/ GetStats("u2", 0)

SpecDue == Init /\ [][NextDue]_vars

(* ------------- the API from a state without user_grammars rows --------- *)

\* every request that reads or writes user_grammars, and u1 marking words
\* known and completing its story
NextGrammar ==
    \/ \E u \in Users, g \in ConceptIds \cup {"g9"} : UnlockGrammarConcept(u, g)
    \/ \E u \in Users, focus_grammar_id \in {NONE, "g1"}, response \in {"raises", "json"} :
          GenerateStory(u, <<>>, focus_grammar_id, NONE, response)
    \/ /\ nreq < MaxRequests
       /\ \/ \E w \in Words : MarkWordKnown("u1", w)
          \/ CompleteStory("u1", "s1", NULL, 0)

SpecGrammar == Init /\ [][NextGrammar]_vars

(* ------------------------------- claims ------------------------------- *)

\* the row the most recent request was about, as it is now
LastRow == user_words[last.id]

Reviewed == last.op = "submit_review"

\* C1: when review submissions for the same row run concurrently, no update
\* is lost: once they have committed, the persisted row is the result of
\* applying them one after the other in some order (times_reviewed has grown
\* by their number; interval, ease, counters, familiarity and status are
\* those of that serial order).
C1_NoLostUpdate ==
    \A id \in RowIds :
       LET done == {p \in Procs : pc[p] = "done" /\ req[p].id = id}
           first == CHOOSE p \in done :
                       \A o \in done : snap[p].times_reviewed <= snap[o].times_reviewed
           Sched(row) == <<row.times_reviewed, row.times_correct, row.srs_interval_days,
                           row.srs_ease_factor, row.familiarity, row.status>>
           RECURSIVE Serial(_, _)
           Serial(row, S) ==
               IF S = {} THEN {Sched(row)}
               ELSE UNION {Serial(Review(row, req[p].quality, 0, 0, up), S \ {p}) :
                             p \in S, up \in BOOLEAN}
       IN  Cardinality(done) >= 2 =>
             /\ user_words[id].times_reviewed
                  = snap[first].times_reviewed + Cardinality(done)
             /\ Sched(user_words[id]) \in Serial(snap[first], done)

C3_SuccessInterval ==
    (Reviewed /\ last.quality >= 3) =>
       LET n == last.pre.srs_interval_days
           e == LastRow.srs_ease_factor
           i == LastRow.srs_interval_days
       IN  /\ n = 0 => i = 1
           /\ n = 1 => i = 6
           /\ n > 1 => /\ 2 * (100 * i - n * e) <= 100
                       /\ 2 * (n * e - 100 * i) <= 100

\* C3 witness: 9 days at ease 2.5, quality 5: 9 * 2.6 = 23.4 gives 23
C3_Witness ==
    /\ Reviewed /\ last.quality = 5
    /\ last.pre.srs_interval_days = 9 /\ last.pre.srs_ease_factor = 250
    /\ LastRow.srs_interval_days = 23

\* C4: the ease factor of every row is at least 1.3, and a successful review
\* changes it by +0.10 (quality 5), 0 (quality 4) or -0.14 (quality 3) and
\* then applies the floor 1.3.
C4_EaseFloor ==
    /\ \A id \in RowIds :
         user_words[id] # NoRow => user_words[id].srs_ease_factor >= 130
    /\ (Reviewed /\ last.quality >= 3) =>
         LET delta == CASE last.quality = 5 -> 10
                        [] last.quality = 4 -> 0
                        [] last.quality = 3 -> -14
             sum == last.pre.srs_ease_factor + delta
         IN  LastRow.srs_ease_factor = (IF sum < 130 THEN 130 ELSE sum)

\* C4 witness: the ninth quality-3 review in a row takes 1.38 to the floor
C4_Witness ==
    /\ Reviewed /\ last.quality = 3
    /\ last.pre.srs_ease_factor = 138
    /\ LastRow.srs_ease_factor = 130

\* C5: after a review with quality 0, 1 or 2 the interval is 1 day and the
\* ease factor is what it was, whatever the row was before.
C5_FailedReview ==
    (Reviewed /\ last.quality < 3) =>
       /\ LastRow.srs_interval_days = 1
       /\ LastRow.srs_ease_factor = last.pre.srs_ease_factor

\* C5 witness: a failed review of a row at 9 days
C5_Witness ==
    /\ Reviewed /\ last.quality = 1
    /\ last.pre.srs_interval_days = 9 /\ last.pre.srs_ease_factor = 260
    /\ LastRow.srs_interval_days = 1

\* C6: a review with quality 0, 1 or 2 never leaves the row MASTERED: the
\* status after it is LEARNING or KNOWN, whatever the status before.
C6_FailedNotMastered ==
    (Reviewed /\ last.quality < 3) => LastRow.status \in {"LEARNING", "KNOWN"}

\* C6 witness: a MASTERED row with 9 of 9 correct fails a review: familiarity
\* is still 0.9 and the status is KNOWN
C6_Witness ==
    /\ Reviewed /\ last.quality < 3
    /\ last.pre.status = "MASTERED"
    /\ LastRow.familiarity = <<9, 10>>
    /\ LastRow.status = "KNOWN"

\* C7: after a review the status depends on the recomputed familiarity and
\* the new interval only: MASTERED iff familiarity >= 0.9 and interval >= 21,
\* otherwise KNOWN iff familiarity >= 0.7, otherwise LEARNING.
C7_StatusRule ==
    Reviewed =>
       LET num == LastRow.familiarity[1]
           den == LastRow.familiarity[2]
           i == LastRow.srs_interval_days
       IN  /\ LastRow.status = "MASTERED" <=> (10 * num >= 9 * den /\ i >= 21)
           /\ LastRow.status = "KNOWN" <=>
                (10 * num >= 7 * den /\ ~(10 * num >= 9 * den /\ i >= 21))
           /\ LastRow.status = "LEARNING" <=> 10 * num < 7 * den

\* C7 witness: a LEARNING row reaches exactly 21 days with familiarity 1.0
C7_Witness ==
    /\ Reviewed
    /\ last.pre.status = "LEARNING"
    /\ LastRow.srs_interval_days = 21
    /\ LastRow.familiarity = <<1, 1>>
    /\ LastRow.status = "MASTERED"

\* C8: after a review familiarity is times_correct / max(1, times_reviewed)
\* of the counters after their increment, at most 1; what another operation
\* had stored (the 0.8 of mark-known) is overwritten.
C8_Familiarity ==
    Reviewed =>
       LET c == LastRow.times_correct
           r == IF LastRow.times_reviewed < 1 THEN 1 ELSE LastRow.times_reviewed
           f == LastRow.familiarity
       IN  IF c >= r THEN f = <<1, 1>>
           ELSE /\ f[1] * r = c * f[2]
                /\ f[1] >= 0 /\ f[2] >= 1

\* C8 witness: a row mark-known created with familiarity 0.8 fails its first
\* review and has familiarity 0
C8_Witness ==
    /\ Reviewed /\ last.quality < 3
    /\ last.pre.familiarity = <<4, 5>> /\ last.pre.times_reviewed = 0
    /\ LastRow.familiarity = <<0, 1>>

\* C9: a review increments times_reviewed by 1, times_correct by 1 iff
\* quality >= 3, and sets last_seen_at = now and next_review_at = now + the
\* new interval for one and the same instant now, so that next_review_at -
\* last_seen_at is exactly the new interval.
C9_CountersAndTimes ==
    Reviewed =>
       /\ LastRow.times_reviewed = last.pre.times_reviewed + 1
       /\ LastRow.times_correct
            = last.pre.times_correct + (IF last.quality >= 3 THEN 1 ELSE 0)
       /\ LastRow.last_seen_at = last.at
       /\ LastRow.next_review_at = last.at + LastRow.srs_interval_days * Day
       /\ LastRow.next_review_at - LastRow.last_seen_at
            = LastRow.srs_interval_days * Day

\* C10: a review never produces status NEW, and no row that has been
\* reviewed has status NEW.
C10_NeverNew ==
    /\ Reviewed => LastRow.status \in {"LEARNING", "KNOWN", "MASTERED"}
    /\ \A id \in RowIds :
         (user_words[id] # NoRow /\ user_words[id].times_reviewed >= 1)
            => user_words[id].status # "NEW"

\* C10 witness: a seeded row with status NEW has been reviewed
C10_Witness ==
    /\ Reviewed
    /\ last.pre.status = "NEW"
    /\ LastRow.times_reviewed = 1
    /\ LastRow.status = "LEARNING"

\* C11: status is not monotonic under reviews: a row with status KNOWN can be
\* reached, and a single review of it with quality < 3 that leaves fewer
\* than 0.7 of its reviews correct moves it to LEARNING.
C11_KnownCanFall ==
    (/\ Reviewed /\ last.quality < 3
     /\ last.pre.status = "KNOWN"
     /\ 10 * last.pre.times_correct < 7 * (last.pre.times_reviewed + 1))
       => LastRow.status = "LEARNING"

\* C11 witness: mark-known made the row KNOWN, its first review failed, and
\* the row is LEARNING
C11_Witness ==
    /\ Reviewed /\ last.quality < 3
    /\ last.pre.status = "KNOWN"
    /\ last.pre.times_reviewed = 0
    /\ LastRow.status = "LEARNING"

\* C12: a review submission with quality outside 0..5, for a row that does
\* not exist or for a row of a different user is rejected (422 or 404), and
\* a rejected submission leaves every progress row of every user unchanged;
\* only a submission with quality in 0..5 for a row of the submitter is
\* applied.
C12_RejectedReview ==
    [][LET r == last'
           invalid == \/ r.quality \notin 0 .. 5
                      \/ user_words[r.id] = NoRow
                      \/ user_words[r.id].user_id # r.user
       IN  /\ (nreq' # nreq /\ r.op \in {"submit_review_422", "submit_review_404"})
                => (invalid /\ user_words' = user_words)
           /\ (nreq' # nreq /\ r.op = "submit_review") => ~invalid]_vars

\* C12 witness: a user's submission for a row of the other user was answered
\* 404, and that row is in the table
C12_Witness ==
    /\ last.op = "submit_review_404"
    /\ user_words[last.id] # NoRow
    /\ user_words[last.id].user_id # last.user
    /\ user_words[last.id].times_reviewed = 0

\* C13: at the instant now of a request, a row of the user is due iff its
\* next_review_at is at or before now and its status is not MASTERED; the
\* due list holds due rows only (the first `limit` of them), and words_due
\* of the summary and reviews_due of the dashboard are the number of due
\* rows, so a MASTERED row is never due.
C13_DuePredicate ==
    LET due == {id \in RowIds :
                  /\ user_words[id] # NoRow
                  /\ user_words[id].user_id = reply.user
                  /\ user_words[id].next_review_at # NULL
                  /\ user_words[id].next_review_at <= reply.at
                  /\ user_words[id].status # "MASTERED"}
    IN  /\ reply.op = "get_due_reviews" =>
             /\ \A i \in DOMAIN reply.user_words : reply.user_words[i] \in due
             /\ \A i, j \in DOMAIN reply.user_words :
                  i # j => reply.user_words[i] # reply.user_words[j]
             /\ Len(reply.user_words)
                  = (IF reply.limit < Cardinality(due) THEN reply.limit
                     ELSE Cardinality(due))
        /\ reply.op = "get_review_summary" => reply.words_due = Cardinality(due)
        /\ reply.op = "get_stats" => reply.reviews_due = Cardinality(due)

\* C13 witness: the dashboard counted one row due for a user who has a
\* LEARNING row and a MASTERED row, both with next_review_at in the past
C13_Witness ==
    /\ reply.op = "get_stats" /\ reply.user = "u1"
    /\ user_words[1] # NoRow /\ user_words[2] # NoRow
    /\ user_words[1].status = "MASTERED" /\ user_words[1].next_review_at < reply.at
    /\ user_words[2].status = "LEARNING" /\ user_words[2].next_review_at < reply.at
    /\ reply.reviews_due = 1

\* C14 as stated: the level table used for story readiness and story
\* generation maps a words-known count of 49 to A1, 50 to A2, 399 to A2 and
\* 400 to B1.
C14_Original ==
    LET n == WordsKnown(user_words, reply.user)
        level == IF reply.op = "generate_story"
                 THEN stories[reply.id].difficulty_level ELSE reply.level
    IN  reply.op \in {"get_ready_story_info", "generate_story"} =>
          /\ n = 49 => level = "A1"
          /\ n = 50 => level = "A2"
          /\ n = 399 => level = "A2"
          /\ n = 400 => level = "B1"

\* C14 amended: the level table used for story readiness and story
\* generation (without a difficulty override) maps a words-known count of
\* 49 to A1, 50 to A2, 399 to B1 and 400 to B2.
C14_StoryLevels ==
    LET n == WordsKnown(user_words, reply.user)
        level == IF reply.op = "generate_story"
                 THEN stories[reply.id].difficulty_level ELSE reply.level
    IN  reply.op \in {"get_ready_story_info", "generate_story"} =>
          /\ n = 49 => level = "A1"
          /\ n = 50 => level = "A2"
          /\ n = 399 => level = "B1"
          /\ n = 400 => level = "B2"

\* C14 witness: readiness was asked for a user who knows 400 words (399
\* and the one of the table) and the answer names B2
C14_Witness ==
    /\ reply.op = "get_ready_story_info"
    /\ other_known = 399 /\ reply.words_known = 400
    /\ reply.level = "B2"

\* C15: the dashboard level is A1 for n < 100 words known, A2 for
\* 100 <= n < 300, B1 for 300 <= n < 600 and B2 for n >= 600, for every
\* count n >= 0, and no smaller count gets a higher level.
C15_DashboardLevels ==
    reply.op = "get_stats" =>
       LET n == reply.words_known
           Rank(l) == CASE l = "A1" -> 1 [] l = "A2" -> 2 [] l = "B1" -> 3 [] l = "B2" -> 4
       IN  /\ n >= 0
           /\ reply.level = "A1" <=> n < 100
           /\ reply.level = "A2" <=> (100 <= n /\ n < 300)
           /\ reply.level = "B1" <=> (300 <= n /\ n < 600)
           /\ reply.level = "B2" <=> n >= 600
           /\ \A m \in 0 .. n : Rank(DetermineLevel(m)) <= Rank(reply.level)

\* C15 witness: the dashboard of a user who knows exactly 100 words says A2
C15_Witness ==
    /\ reply.op = "get_stats"
    /\ reply.words_known = 100
    /\ reply.level = "A2"

\* C16: the streak is the number of consecutive calendar days, counted back
\* from today (from yesterday when today has none), on each of which the
\* user started at least one session that has ended: 0 without such a
\* session, one per day however many sessions the day has, and ending at
\* the first day without one.
C16_Streak ==
    reply.op = "get_stats" =>
       LET days == {learning_sessions[i].started_at \div Day :
                      i \in {k \in SessionIds :
                               /\ learning_sessions[k] # NoRow
                               /\ learning_sessions[k].user_id = reply.user
                               /\ learning_sessions[k].ended_at # NULL}}
           today == reply.streak_at \div Day
           anchor == IF today \in days THEN today ELSE today - 1
           run == {d \in days : d <= anchor /\ \A e \in d .. anchor : e \in days}
       IN  /\ reply.streak_days = Cardinality(run)
           /\ days = {} => reply.streak_days = 0

\* C16 witness: three ended sessions on today, yesterday and the day before,
\* two of them on the same day would not do: the streak is 3
C16_Witness ==
    /\ reply.op = "get_stats" /\ reply.user = "u1"
    /\ reply.streak_days = 3
    /\ \E i, j \in SessionIds :
         /\ i # j
         /\ learning_sessions[i] # NoRow /\ learning_sessions[j] # NoRow
         /\ learning_sessions[i].started_at \div Day = reply.streak_at \div Day
         /\ learning_sessions[j].started_at \div Day = reply.streak_at \div Day - 2

\* C17: whatever the request (any list of word ids, with more than 5 ids,
\* repeated ids or ids of words the user owns; any focus grammar id; any
\* level), the new words of the generated story are at most 5 and no word
\* twice, and its grammar concepts are at most 2 and no concept twice.
C17_SelectionBounded ==
    reply.op = "generate_story" =>
       LET words == stories[reply.id].target_new_word_ids
           grammar == stories[reply.id].target_grammar_ids
       IN  /\ Len(words) <= 5
           /\ \A i, j \in DOMAIN words : i # j => words[i] # words[j]
           /\ Len(grammar) <= 2
           /\ \A i, j \in DOMAIN grammar : i # j => grammar[i] # grammar[j]

\* C17 witness: six words were asked for, one of them owned, no focus was
\* given, and the story has 5 new words and 2 concepts
C17_Witness ==
    /\ reply.op = "generate_story" /\ reply.user = "u1"
    /\ Len(reply.include_word_ids) = 6
    /\ reply.focus_grammar_id = NONE
    /\ "w1" \in {user_words[id].word_id : id \in {i \in RowIds : user_words[i] # NoRow}}
    /\ Len(stories[reply.id].target_new_word_ids) = 5
    /\ Len(stories[reply.id].target_grammar_ids) = 2

\* C18: for a user with 0 known words and a request without word ids and
\* without a level, generation at tier A1 selects between 3 and 5 new words,
\* none of which the user has a progress row for and none of them twice.
C18_ThreeToFive ==
    (/\ reply.op = "generate_story"
     /\ reply.include_word_ids = <<>>
     /\ reply.difficulty_override = NONE
     /\ WordsKnown(user_words, reply.user) = 0)
       => LET words == stories[reply.id].target_new_word_ids
          IN  /\ stories[reply.id].difficulty_level = "A1"
              /\ Len(words) >= 3 /\ Len(words) <= 5
              /\ \A i \in DOMAIN words :
                   \A id \in RowIds :
                      (user_words[id] # NoRow /\ user_words[id].user_id = reply.user)
                         => user_words[id].word_id # words[i]
              /\ \A i, j \in DOMAIN words : i # j => words[i] # words[j]

\* C19: the readiness query answers ready = true exactly when at least 3
\* words of the user's tier (A1 below 50 words known, A2 from 50) have no
\* progress row of that user at all; a word with a row of the user in any
\* status does not count.
C19_Readiness ==
    reply.op = "get_ready_story_info" =>
       LET touched == {user_words[id].word_id :
                         id \in {i \in RowIds : /\ user_words[i] # NoRow
                                                /\ user_words[i].user_id = reply.user}}
           tier == IF reply.words_known < 50 THEN "A1" ELSE "A2"
           untouched == {w \in WordIds : cefr_level[w] = tier /\ w \notin touched}
       IN  /\ reply.words_known < 150 => reply.level = tier
           /\ reply.ready <=> Cardinality(untouched) >= 3

\* C19 witness: a user at tier A1 has rows LEARNING, LEARNING and MASTERED
\* for three of the four A1 words and is told ready = false
C19_Witness ==
    /\ reply.op = "get_ready_story_info" /\ reply.user = "u1"
    /\ reply.level = "A1"
    /\ \E id \in RowIds : user_words[id] # NoRow /\ user_words[id].status = "MASTERED"
    /\ \E id \in RowIds : user_words[id] # NoRow /\ user_words[id].status = "LEARNING"
    /\ reply.new_words_available = 1
    /\ reply.ready = FALSE

\* C20: a user's progress on a concept goes from LOCKED or from no row to
\* AVAILABLE only in a step in which that user has a LEARNED row for every
\* prerequisite id of the concept; an unlock request without them is
\* rejected with 400, and a rejected request creates and changes no grammar
\* progress row.
C20_UnlockNeedsPrerequisites ==
    [][\A u \in Users, g \in ConceptIds :
         LET met == \A i \in DOMAIN prerequisite_ids[g] :
                       user_grammar[u, prerequisite_ids[g][i]] = "LEARNED"
             asked == /\ reply' # reply
                      /\ reply'.op \in {"unlock_grammar_concept", "unlock_grammar_concept_400"}
                      /\ reply'.user = u /\ reply'.concept_id = g
         IN  /\ (user_grammar[u, g] \in {"none", "LOCKED"}
                   /\ user_grammar'[u, g] = "AVAILABLE") => met
             /\ (asked /\ ~met) => reply'.op = "unlock_grammar_concept_400"
             /\ (asked /\ reply'.op = "unlock_grammar_concept_400")
                   => user_grammar' = user_grammar]_vars

\* C20 witness: the third concept was unlocked from LOCKED for a user who has
\* learned both its prerequisites; the other user has unlocked the first
\* concept and has no row for the second
C20_Witness ==
    /\ reply.op = "unlock_grammar_concept"
    /\ reply.user = "u1" /\ reply.concept_id = "g3" /\ reply.pre = "LOCKED"
    /\ user_grammar["u1", "g1"] = "LEARNED" /\ user_grammar["u1", "g2"] = "LEARNED"
    /\ user_grammar["u1", "g3"] = "AVAILABLE"
    /\ user_grammar["u2", "g1"] = "AVAILABLE"
    /\ user_grammar["u2", "g2"] = "none"

\* e is reached from a by at most one insertion, deletion or substitution
\* (an edit script between the two needs the characters of either and no other)
WithinOne(a, e) == a = e \/ a \in Near(e, Range(a) \cup Range(e))

\* by at most two: some string is within one of both
WithinTwo(a, e) ==
    \/ WithinOne(a, e)
    \/ Near(a, Range(a) \cup Range(e)) \cap Near(e, Range(a) \cup Range(e)) # {}

\* by three and no fewer
ExactlyThree(a, e) ==
    /\ ~WithinTwo(a, e)
    /\ \E m \in Near(e, Range(a) \cup Range(e)) : WithinTwo(a, m)

\* C22 as stated: the answer is accepted iff the normalized strings are equal,
\* or their romanization-simplified forms are equal, or their edit distance is
\* at most 1 (expected of at most 6 characters) or at most 2 (longer); and an
\* answer at distance 3 from a 10-character expected answer is rejected, one at
\* distance 1 from a 5-character expected answer accepted
C22_Original ==
    (reply.op = "evaluate_free_text" /\ reply.llm \in LlmFailures) =>
      LET a == Normalize(reply.user_answer)
          e == Normalize(reply.correct_answer)
      IN  /\ reply.is_correct <=>
                \/ a = e
                \/ SimplifyRomanization(a) = SimplifyRomanization(e)
                \/ IF Len(e) <= 6 THEN WithinOne(a, e) ELSE WithinTwo(a, e)
          /\ (Len(e) = 5 /\ WithinOne(a, e)) => reply.is_correct
          /\ (Len(e) = 10 /\ reply.is_correct) => ~ExactlyThree(a, e)

\* C22, amended: the answer is accepted iff the normalized strings are equal,
\* or their romanization-simplified forms are equal, or their edit distance is
\* at most 1 (expected of at most 6 characters) or at most 2 (longer); an answer
\* at distance 3 from a 10-character expected answer is rejected unless the
\* romanization-simplified forms are equal, and one at distance 1 from a
\* 5-character expected answer is accepted
C22_FuzzyMatchRule ==
    (reply.op = "evaluate_free_text" /\ reply.llm \in LlmFailures) =>
      LET a == Normalize(reply.user_answer)
          e == Normalize(reply.correct_answer)
      IN  /\ reply.is_correct <=>
                \/ a = e
                \/ SimplifyRomanization(a) = SimplifyRomanization(e)
                \/ IF Len(e) <= 6 THEN WithinOne(a, e) ELSE WithinTwo(a, e)
          /\ (Len(e) = 5 /\ WithinOne(a, e)) => reply.is_correct
          /\ (/\ Len(e) = 10
              /\ reply.is_correct
              /\ SimplifyRomanization(a) # SimplifyRomanization(e))
             => ~ExactlyThree(a, e)

\* an answer three edits from a 10-character expected answer, its simplified
\* form another, was rejected
C22_Witness ==
    /\ reply.op = "evaluate_free_text" /\ reply.llm \in LlmFailures
    /\ ~reply.is_correct
    /\ Len(Normalize(reply.correct_answer)) = 10
    /\ SimplifyRomanization(Normalize(reply.user_answer))
         # SimplifyRomanization(Normalize(reply.correct_answer))
    /\ ExactlyThree(Normalize(reply.user_answer), Normalize(reply.correct_answer))

\* C21: a submitted answer to a TRANSLATE_TO_HINDI or TRANSLATE_TO_ENGLISH
\* exercise is always graded, and when the collaborator raised, timed out or
\* returned text that is not the grading JSON, the correctness returned and
\* recorded is FuzzyMatch(user_answer, correct_answer)
C21_GradingFallback ==
    (/\ reply.op = "submit_exercise"
     /\ exercises[reply.exercise_id].type
          \in {"TRANSLATE_TO_HINDI", "TRANSLATE_TO_ENGLISH"})
    => /\ reply.is_correct \in BOOLEAN
       /\ exercise_attempts # <<>>
       /\ exercise_attempts[Len(exercise_attempts)].is_correct = reply.is_correct
       /\ reply.llm \in LlmFailures
            => reply.is_correct = FuzzyMatch(reply.user_answer, reply.correct_answer)

\* the collaborator timed out and the answer chhota to chota was accepted
C21_Witness ==
    /\ reply.op = "submit_exercise"
    /\ exercises[reply.exercise_id].type = "TRANSLATE_TO_HINDI"
    /\ reply.llm = "timeout"
    /\ reply.user_answer # reply.correct_answer
    /\ reply.is_correct
    /\ exercise_attempts[Len(exercise_attempts)].is_correct

\* C23: a story generation whose collaborator was unreachable, timed out or
\* returned content that cannot be parsed fails towards the caller, and no Story
\* row and no Exercise row has been persisted by it
C23_NoPartialStory ==
    (/\ reply.op \in {"generate_story", "generate_story_500"}
     /\ reply.response \in {"raises", "unparsable"})
    => /\ reply.op = "generate_story_500"
       /\ stories = InitStories
       /\ exercises = NoExercises

\* C24: however story completions, mark-known requests and grammar unlocks
\* interleave, user_words never holds two rows for one (user, word) and
\* user_grammars never two rows for one (user, concept)
C24_OneRowPerKey ==
    /\ \A u \in Users, w \in WordIds : Cardinality(RowsOf(user_words, u, w)) <= 1
    /\ \A u \in Users, g \in ConceptIds : grammar_inserts[u, g] <= 1

\* two mark-known requests found no row for the same (user, word) and both
\* tried to create one: one is done, the other was refused, there is one row
C24_Witness ==
    \E p, q \in Procs :
       /\ pc[p] = "done" /\ pc[q] = "failed"
       /\ req[p].op = "mark_word_known" /\ req[q].op = "mark_word_known"
       /\ Created(p) # {} /\ Created(p) = Created(q)
       /\ \A r \in Created(p) : Cardinality(RowsOf(user_words, r.user_id, r.word_id)) = 1

\* C25 as stated: a row that exists is never deleted, and no request other
\* than a review and a story completion changes any of its fields (mark-known
\* of a word the user has a row for leaves the row as it is)
C25_Original ==
    [][\A id \in RowIds :
         user_words[id] # NoRow =>
           /\ user_words'[id] # NoRow
           /\ user_words'[id] # user_words[id]
                => last'.op \in {"submit_review", "complete_story"}]_vars

\* C25, amended: a row that exists is never deleted, and it is changed only by
\* a review, by a story completion and by mark-known, which sets status KNOWN
\* and familiarity 0.8 on it and no other field
C25_RowsChangedBy ==
    [][\A id \in RowIds :
         user_words[id] # NoRow =>
           /\ user_words'[id] # NoRow
           /\ user_words'[id] # user_words[id]
                => \/ last'.op \in {"submit_review", "complete_story"}
                   \/ /\ last'.op = "mark_word_known"
                      /\ user_words'[id] = [user_words[id] EXCEPT
                                              !.status = "KNOWN",
                                              !.familiarity = <<4, 5>>]]_vars

\* mark-known met a LEARNING row that a story completion had created and
\* made it KNOWN, its counters as they were
C25_Witness ==
    /\ last.op = "mark_word_known"
    /\ last.pre # NoRow
    /\ last.pre.status = "LEARNING"
    /\ last.pre.times_seen = 1
    /\ user_words[last.id].status = "KNOWN"
    /\ user_words[last.id].times_seen = 1

\* C26: every row has 0 <= times_correct <= times_reviewed, so the quotient a
\* review computes for familiarity lies in [0, 1] before it is clamped
C26_CorrectWithinReviewed ==
    \A id \in RowIds :
       user_words[id] # NoRow =>
         /\ 0 <= user_words[id].times_correct
         /\ user_words[id].times_correct <= user_words[id].times_reviewed

\* C27: every row has an interval of at least 1 day; a successful review of a
\* row that was never reviewed yields interval 6, and every successful review
\* yields an interval greater than the one the row had
C27_IntervalAtLeastOne ==
    /\ \A id \in RowIds :
          user_words[id] # NoRow =>
            user_words[id].srs_interval_days \in Nat \ {0}
    /\ (Reviewed /\ last.quality >= 3) =>
          /\ last.pre.srs_interval_days # 0
          /\ LastRow.srs_interval_days > last.pre.srs_interval_days
          /\ last.pre.times_reviewed = 0 => LastRow.srs_interval_days = 6

\* a successful review of a row past 6 days, its ease factor at the floor of
\* 1.3, took the interval further up
C27_Witness ==
    /\ Reviewed /\ last.quality >= 3
    /\ last.pre.srs_ease_factor = 130
    /\ last.pre.srs_interval_days > 6
    /\ LastRow.srs_interval_days > last.pre.srs_interval_days

\* C28: story completion and mark-known create rows without next_review_at
\* and leave the next_review_at of a row that exists as it is, and whatever
\* time passes, a row is listed or counted as due only once a review has been
\* submitted for it
C28_NoDueUntilReviewed ==
    [][/\ (nreq' # nreq /\ last'.op \in {"complete_story", "mark_word_known"})
            => \A id \in RowIds :
                  user_words'[id] # NoRow =>
                    user_words'[id].next_review_at =
                      IF user_words[id] = NoRow THEN NULL
                      ELSE user_words[id].next_review_at
       /\ LET ReviewedRows ==
                  {id \in RowIds : /\ user_words'[id] # NoRow
                                   /\ user_words'[id].user_id = reply'.user
                                   /\ user_words'[id].times_reviewed >= 1}
          IN  /\ reply'.op = "get_due_reviews"
                   => Range(reply'.user_words) \subseteq ReviewedRows
              /\ reply'.op = "get_review_summary"
                   => reply'.words_due <= Cardinality(ReviewedRows)
              /\ reply'.op = "get_stats"
                   => reply'.reviews_due <= Cardinality(ReviewedRows)]_vars

\* a day after u2 reviewed one row and marked another word known, the due
\* list holds the reviewed row and not the other
C28_Witness ==
    /\ reply.op = "get_due_reviews"
    /\ reply.at = Day
    /\ Len(reply.user_words) = 1
    /\ \E id \in RowIds : /\ user_words[id] # NoRow
                          /\ user_words[id].user_id = "u2"
                          /\ user_words[id].status = "KNOWN"
                          /\ user_words[id].times_reviewed = 0
                          /\ user_words[id].next_review_at = NULL

\* C29: on the same rows of a user, the level the readiness query reports is
\* the level story generation resolves without an override: each answer is
\* the other call site's mapping of the count of KNOWN and MASTERED rows
C29_SameLevel ==
    /\ reply.op = "get_ready_story_info"
         => reply.level = DetermineUserLevel(WordsKnown(user_words, reply.user))
    /\ (reply.op = "generate_story" /\ reply.difficulty_override = NONE)
         => stories[reply.id].difficulty_level
              = ReadyLevel(WordsKnown(user_words, reply.user))

\* a story was generated at B1 for a user who knows 150 words, the count at
\* which the readiness query moves to B1
C29_Witness ==
    /\ reply.op = "generate_story"
    /\ reply.difficulty_override = NONE
    /\ WordsKnown(user_words, reply.user) = 150
    /\ stories[reply.id].difficulty_level = "B1"
    /\ ReadyLevel(149) = "A2"

\* C30: from a state without user_grammars rows, every row that comes to
\* exist has status AVAILABLE and no request changes a row once it exists, so
\* every unlock that is accepted is of a concept without prerequisites
C30_OnlyAvailable ==
    [][/\ \A u \in Users, g \in ConceptIds :
            /\ user_grammar'[u, g] \in {"none", "AVAILABLE"}
            /\ user_grammar[u, g] # "none" => user_grammar'[u, g] = user_grammar[u, g]
       /\ reply'.op = "unlock_grammar_concept"
            => prerequisite_ids[reply'.concept_id] = <<>>]_vars

\* u1 had unlocked g1, the one prerequisite of g2, and its unlock of g2 was
\* rejected
C30_Witness ==
    /\ reply.op = "unlock_grammar_concept_400"
    /\ reply.user = "u1"
    /\ reply.concept_id = "g2"
    /\ user_grammar["u1", "g1"] = "AVAILABLE"
    /\ user_grammar["u1", "g2"] = "none"

====
